---- MODULE Spec2Model ----
(***************************************************************************)
(* Drift detection engine of ai-contract-drift-monitor: schema diffing,    *)
(* severity classification, the snapshot update policy and the sequencing  *)
(* of one drift-check run (hardened and legacy CLI).                       *)
(*                                                                         *)
(* Strings are sequences of chunks (each chunk a TLA+ string), so that     *)
(* template literals are concatenations and String.includes is a search.   *)
(***************************************************************************)
EXTENDS Integers, Sequences, FiniteSets, TLC

(* ----------------------------------------------------------------------- *)
(* Strings                                                                 *)
(* ----------------------------------------------------------------------- *)

\* String.prototype.includes: sub occurs as a contiguous run of s
Includes(s, sub) ==
  \E i \in 0..(Len(s) - Len(sub)) :
    \A j \in 1..Len(sub) : s[i + j] = sub[j]

\* String.prototype.startsWith
StartsWith(s, pre) ==
  /\ Len(pre) <= Len(s)
  /\ \A j \in 1..Len(pre) : s[j] = pre[j]

\* the elements of a sequence, as a set
Range(s) == { s[i] : i \in 1..Len(s) }

\* new Set([...]) then iteration: first occurrences, in insertion order
RECURSIVE Dedupe(_)
Dedupe(s) ==
  IF s = <<>> THEN <<>>
  ELSE LET r == Dedupe(SubSeq(s, 1, Len(s) - 1))
           x == s[Len(s)]
       IN IF x \in Range(r) THEN r ELSE Append(r, x)

TYPE_CHANGED == <<"(type changed)">>
DEPRECATED == <<"[DEPRECATED]">>

(* ----------------------------------------------------------------------- *)
(* Signatures (Level1Schema): an object is the sequence of its entries in  *)
(* insertion order; a value is a kind tag or a list of field tokens.       *)
(* ----------------------------------------------------------------------- *)

Scalar(tag) == [isArr |-> FALSE, tag |-> tag, items |-> <<>>]
List(items) == [isArr |-> TRUE, tag |-> "", items |-> items]
Undefined == [isArr |-> FALSE, tag |-> "undefined", items |-> <<>>]

\* a value that is a plain object (a response stored as it came), and such
\* an object as an element of a list: `${item}` prints it this way; every
\* JSON.parse makes a new object, so it is identical to no other one
RawObject == [isArr |-> FALSE, tag |-> "[object Object]", items |-> <<>>]
ObjectItem == <<"[object Object]">>

\* Object.keys(obj)
ObjectKeys(obj) == [i \in 1..Len(obj) |-> obj[i].k]

\* obj?.[key]
Get(obj, key) ==
  IF \E i \in 1..Len(obj) : obj[i].k = key
  THEN obj[CHOOSE i \in 1..Len(obj) : obj[i].k = key].v
  ELSE Undefined

\* obj[key] = value: overwrite in place, or append a new entry
Put(obj, key, value) ==
  IF \E i \in 1..Len(obj) : obj[i].k = key
  THEN [i \in 1..Len(obj) |-> IF obj[i].k = key THEN [k |-> key, v |-> value] ELSE obj[i]]
  ELSE Append(obj, [k |-> key, v |-> value])

\* fault variant: values compared by identity, never equal
StrictNotEqualMutIdentity(p, c) == TRUE

\* prevValue !== currValue, for two defined values that are not both arrays
StrictNotEqual(p, c) ==
  IF p.isArr \/ c.isArr THEN TRUE ELSE p.tag # c.tag \/ p = RawObject

(* ----------------------------------------------------------------------- *)
(* diffSchemas (hardened CLI)                                              *)
(* ----------------------------------------------------------------------- *)

\* for (const item of xs) if (!other.has(item)) out.push(`${key}.${item}`)
RECURSIVE PushMissing(_, _, _, _)
PushMissing(out, key, xs, other) ==
  IF xs = <<>> THEN out
  ELSE PushMissing(
         IF Head(xs) \in other /\ Head(xs) # ObjectItem THEN out
         ELSE Append(out, key \o <<".">> \o Head(xs)),
         key, Tail(xs), other)

\* one iteration of the loop over allKeys
\* fault variant: a type change is also reported as a removal
DiffKeyMutRemoveToo(acc, key, prev, curr) ==
  LET prevValue == Get(prev, key)
      currValue == Get(curr, key)
  IN IF prevValue # Undefined /\ currValue = Undefined
       THEN [acc EXCEPT !.removed = Append(@, key)]
     ELSE IF prevValue = Undefined /\ currValue # Undefined
       THEN [acc EXCEPT !.added = Append(@, key)]
     ELSE IF prevValue.isArr /\ currValue.isArr
       THEN [added |-> PushMissing(acc.added, key, currValue.items, Range(prevValue.items)),
             removed |-> PushMissing(acc.removed, key, prevValue.items, Range(currValue.items))]
     ELSE IF StrictNotEqual(prevValue, currValue)
       THEN [added |-> Append(acc.added, key \o <<" ">> \o TYPE_CHANGED),
             removed |-> Append(acc.removed, key)]
     ELSE acc

\* fault variant: token lists compared as whole sequences
DiffKeyMutPositional(acc, key, prev, curr) ==
  LET prevValue == Get(prev, key)
      currValue == Get(curr, key)
  IN IF prevValue # Undefined /\ currValue = Undefined
       THEN [acc EXCEPT !.removed = Append(@, key)]
     ELSE IF prevValue = Undefined /\ currValue # Undefined
       THEN [acc EXCEPT !.added = Append(@, key)]
     ELSE IF prevValue.isArr /\ currValue.isArr
       THEN IF prevValue.items = currValue.items THEN acc
            ELSE [added |-> PushMissing(acc.added, key, currValue.items, {}),
                  removed |-> PushMissing(acc.removed, key, prevValue.items, {})]
     ELSE IF StrictNotEqual(prevValue, currValue)
       THEN [acc EXCEPT !.added = Append(@, key \o <<" ">> \o TYPE_CHANGED)]
     ELSE acc

DiffKey(acc, key, prev, curr) ==
  LET prevValue == Get(prev, key)
      currValue == Get(curr, key)
  IN IF prevValue # Undefined /\ currValue = Undefined
       THEN [acc EXCEPT !.removed = Append(@, key)]
     ELSE IF prevValue = Undefined /\ currValue # Undefined
       THEN [acc EXCEPT !.added = Append(@, key)]
     ELSE IF prevValue.isArr /\ currValue.isArr
       THEN [added |-> PushMissing(acc.added, key, currValue.items, Range(prevValue.items)),
             removed |-> PushMissing(acc.removed, key, prevValue.items, Range(currValue.items))]
     ELSE IF StrictNotEqual(prevValue, currValue)
       THEN [acc EXCEPT !.added = Append(@, key \o <<" ">> \o TYPE_CHANGED)]
     ELSE acc

RECURSIVE DiffLoop(_, _, _, _)
DiffLoop(acc, keys, prev, curr) ==
  IF keys = <<>> THEN acc
  ELSE DiffLoop(DiffKey(acc, Head(keys), prev, curr), Tail(keys), prev, curr)

\* fault variant: the two arguments taken in the wrong order
diffSchemasMutSwapped(prev, curr) ==
  DiffLoop([added |-> <<>>, removed |-> <<>>],
           Dedupe(ObjectKeys(prev) \o ObjectKeys(curr)), curr, prev)

diffSchemas(prev, curr) ==
  DiffLoop([added |-> <<>>, removed |-> <<>>],
           Dedupe(ObjectKeys(prev) \o ObjectKeys(curr)), prev, curr)

(* ----------------------------------------------------------------------- *)
(* diffSchemas (legacy CLI): key sets only                                 *)
(* ----------------------------------------------------------------------- *)

\* fault variant: the two lists are returned under each other's name
legacyDiffSchemasMutSwapped(prev, curr) ==
  LET prevKeys == Dedupe(ObjectKeys(prev))
      currKeys == Dedupe(ObjectKeys(curr))
  IN [added |-> SelectSeq(prevKeys, LAMBDA k : k \notin Range(currKeys)),
      removed |-> SelectSeq(currKeys, LAMBDA k : k \notin Range(prevKeys))]

legacyDiffSchemas(prev, curr) ==
  LET prevKeys == Dedupe(ObjectKeys(prev))
      currKeys == Dedupe(ObjectKeys(curr))
  IN [added |-> SelectSeq(currKeys, LAMBDA k : k \notin Range(prevKeys)),
      removed |-> SelectSeq(prevKeys, LAMBDA k : k \notin Range(currKeys))]

(* ----------------------------------------------------------------------- *)
(* classifySeverity, hasChanges                                            *)
(* A diff map is the sequence of its entries [id, added, removed].         *)
(* ----------------------------------------------------------------------- *)

RemovedReason(targetId, field) ==
  IF Includes(field, DEPRECATED)
  THEN <<"[MAJOR] ">> \o targetId \o <<": Deprecated field '">> \o field \o <<"' removed">>
  ELSE <<"[MAJOR] ">> \o targetId \o <<": Field '">> \o field \o <<"' removed (breaking change)">>

AddedIsMajor(field) == Includes(field, TYPE_CHANGED)

AddedReason(targetId, field) ==
  IF AddedIsMajor(field)
  THEN <<"[MAJOR] ">> \o targetId \o <<": Type changed for '">> \o field \o <<"' (breaking change)">>
  ELSE <<"[MINOR] ">> \o targetId \o <<": Field '">> \o field \o <<"' added (additive change)">>

\* the body of the loop over Object.entries(diff), for one target
\* fault variant: hasMajor assigned per target instead of accumulated
ClassifyTargetMutLastWins(acc, e) ==
  [reasons |-> acc.reasons
       \o [i \in 1..Len(e.removed) |-> RemovedReason(e.id, e.removed[i])]
       \o [i \in 1..Len(e.added) |-> AddedReason(e.id, e.added[i])],
   hasMajor |-> \/ Len(e.removed) > 0
                \/ \E i \in 1..Len(e.added) : AddedIsMajor(e.added[i])]

\* fault variant: the added entries are reported before the removed ones
ClassifyTargetMutAddedFirst(acc, e) ==
  [reasons |-> acc.reasons
       \o [i \in 1..Len(e.added) |-> AddedReason(e.id, e.added[i])]
       \o [i \in 1..Len(e.removed) |-> RemovedReason(e.id, e.removed[i])],
   hasMajor |-> \/ acc.hasMajor
                \/ Len(e.removed) > 0
                \/ \E i \in 1..Len(e.added) : AddedIsMajor(e.added[i])]

ClassifyTarget(acc, e) ==
  [reasons |-> acc.reasons
       \o [i \in 1..Len(e.removed) |-> RemovedReason(e.id, e.removed[i])]
       \o [i \in 1..Len(e.added) |-> AddedReason(e.id, e.added[i])],
   hasMajor |-> \/ acc.hasMajor
                \/ Len(e.removed) > 0
                \/ \E i \in 1..Len(e.added) : AddedIsMajor(e.added[i])]

RECURSIVE ClassifyLoop(_, _)
ClassifyLoop(acc, diff) ==
  IF diff = <<>> THEN acc
  ELSE ClassifyLoop(ClassifyTarget(acc, Head(diff)), Tail(diff))

NO_CHANGES_REASON == <<"[MINOR] No significant changes detected">>

\* fault variant: no default reason
DefaultReasonsMutNone(reasons) == reasons

DefaultReasons(reasons) ==
  IF Len(reasons) = 0 THEN <<NO_CHANGES_REASON>> ELSE reasons

classifySeverity(diff) ==
  LET r == ClassifyLoop([reasons |-> <<>>, hasMajor |-> FALSE], diff)
  IN [severity |-> IF r.hasMajor THEN "major" ELSE "minor",
      reasons |-> DefaultReasons(r.reasons)]

hasChanges(diff) ==
  \E i \in 1..Len(diff) : Len(diff[i].added) > 0 \/ Len(diff[i].removed) > 0

(* ----------------------------------------------------------------------- *)
(* Snapshot update policy                                                  *)
(* ----------------------------------------------------------------------- *)

\* process.env.X || fallback: unset and empty both take the fallback
EnvOr(value, fallback) == IF value = "" THEN fallback ELSE value

\* const DRIFT_SEVERITY_GATE = process.env.DRIFT_SEVERITY_GATE || 'major'
SeverityGate(env) == EnvOr(env, "major")

\* const SNAPSHOT_UPDATE_MODE = process.env.SNAPSHOT_UPDATE_MODE || 'PR_ONLY'
UpdateMode(env) == EnvOr(env, "PR_ONLY")

\* fault variant: only the configured gate blocks
UpdateShouldBlockMutGateOnly(severity, gateEnv) ==
  severity = SeverityGate(gateEnv)

\* shouldBlock computed inside updateSnapshotsPROnly
UpdateShouldBlock(severity, gateEnv) ==
  severity = SeverityGate(gateEnv) \/ severity = "major"

shouldBlockCI(severity, gateEnv) ==
  severity = "major" \/ severity = SeverityGate(gateEnv)

(* ----------------------------------------------------------------------- *)
(* JSON values and the REST extractor (typeOfValue, buildLevel1Schema)     *)
(* A JSON value is [t, entries]: its JSON type and, for objects and        *)
(* arrays, its members in order (array members carry no key of their own). *)
(* ----------------------------------------------------------------------- *)

Json(t, entries) == [t |-> t, entries |-> entries]

\* JavaScript typeof on a parsed JSON value
TypeOf(value) ==
  IF value.t \in {"object", "array", "null"} THEN "object" ELSE value.t

typeOfValue(value) ==
  IF value.t = "array" THEN "array"
  ELSE IF value.t = "null" THEN "null"
  ELSE TypeOf(value)

\* Object.entries(record): an array's own keys are its indices
ObjectEntries(record) ==
  IF record.t = "array"
  THEN [i \in 1..Len(record.entries) |->
          [k |-> <<ToString(i - 1)>>, v |-> record.entries[i].v]]
  ELSE record.entries

RECURSIVE BuildLoop(_, _)
BuildLoop(schema, entries) ==
  IF entries = <<>> THEN schema
  ELSE BuildLoop(Put(schema, Head(entries).k, Scalar(typeOfValue(Head(entries).v))),
                 Tail(entries))

buildLevel1Schema(obj) ==
  IF obj.t = "null" \/ TypeOf(obj) # "object" THEN <<>>
  ELSE BuildLoop(<<>>, ObjectEntries(obj))

(* ----------------------------------------------------------------------- *)
(* GraphQL: isGraphQLTarget, extractGraphQLSchema                          *)
(* ----------------------------------------------------------------------- *)

\* chunks in ascending order of their first UTF-16 code unit
ChunkOrder == <<":", "ID", "Int", "String", "[DEPRECATED]", "id", "name", "status">>

ChunkRank(c) == CHOOSE i \in 1..Len(ChunkOrder) : ChunkOrder[i] = c

\* a < b in the order Array.prototype.sort uses for strings
RECURSIVE StrLess(_, _)
StrLess(a, b) ==
  IF b = <<>> THEN FALSE
  ELSE IF a = <<>> THEN TRUE
  ELSE IF Head(a) = Head(b) THEN StrLess(Tail(a), Tail(b))
  ELSE ChunkRank(Head(a)) < ChunkRank(Head(b))

RECURSIVE InsertSorted(_, _)
InsertSorted(sorted, x) ==
  IF sorted = <<>> THEN <<x>>
  ELSE IF StrLess(x, Head(sorted)) THEN <<x>> \o sorted
  ELSE <<Head(sorted)>> \o InsertSorted(Tail(sorted), x)

\* fault variant: the field list is stored in the order of the payload
SortMutNone(list) == list

\* fieldsList.sort()
RECURSIVE Sort(_)
Sort(list) ==
  IF list = <<>> THEN <<>>
  ELSE InsertSorted(Sort(SubSeq(list, 1, Len(list) - 1)), list[Len(list)])

\* a || b on strings: the empty (or missing) string is falsy
OrElse(a, b) == IF a # <<>> THEN a ELSE b

\* field.type.ofType?.name || field.type.name || field.type.kind
FieldType(field) ==
  OrElse(field.type.ofTypeName, OrElse(field.type.name, <<field.type.kind>>))

\* fault variant: the deprecation flag is left out of the token
FieldInfoMutNoFlag(field) == field.name \o <<":">> \o FieldType(field)

FieldInfo(field) ==
  IF field.isDeprecated
  THEN field.name \o <<":">> \o FieldType(field) \o DEPRECATED
  ELSE field.name \o <<":">> \o FieldType(field)

ROOT_TYPES == { <<"Query">>, <<"Mutation">>, <<"Subscription">> }

\* fault variant: the root operation types are kept
IsUserTypeMutKeepRoots(type) ==
  /\ ~StartsWith(type.name, <<"__">>)
  /\ type.kind = "OBJECT"
  /\ Len(type.fields) > 0

IsUserType(type) ==
  /\ ~StartsWith(type.name, <<"__">>)
  /\ type.kind = "OBJECT"
  /\ Len(type.fields) > 0
  /\ type.name \notin ROOT_TYPES

RECURSIVE ExtractLoop(_, _)
ExtractLoop(schema, types) ==
  IF types = <<>> THEN schema
  ELSE LET type == Head(types)
           fieldsList == [i \in 1..Len(type.fields) |-> FieldInfo(type.fields[i])]
       IN ExtractLoop(Put(schema, type.name, List(Sort(fieldsList))), Tail(types))

\* types: introspection.__schema.types (fields: <<>> when null)
extractGraphQLSchema(types) ==
  ExtractLoop(<<>>, SelectSeq(types, IsUserType))

\* String.prototype.toLowerCase, chunk by chunk
LowerChunk(c) ==
  IF c = "GraphQL" THEN "graphql" ELSE IF c = "GRAPHQL" THEN "graphql" ELSE c

ToLowerCase(s) == [i \in 1..Len(s) |-> LowerChunk(s[i])]

isGraphQLTarget(url, body) ==
  \/ Includes(ToLowerCase(url), <<"graphql">>)
  \/ body.present /\ body.hasQuery

(* ----------------------------------------------------------------------- *)
(* AI summary: generateDeterministicSummary, summarizeDiffWithAI           *)
(* ----------------------------------------------------------------------- *)

RECURSIVE Sum(_)
\* numbers.reduce((sum, n) => sum + n, 0)
Sum(numbers) == IF numbers = <<>> THEN 0 ELSE Head(numbers) + Sum(Tail(numbers))

ImpactOf(changes) ==
  (IF Len(changes.removed) > 0
   THEN << changes.id \o <<": ", ToString(Len(changes.removed)),
                            " field(s) removed - may break existing integrations">> >>
   ELSE <<>>)
  \o
  (IF Len(changes.added) > 0
   THEN << changes.id \o <<": ", ToString(Len(changes.added)),
                            " field(s) added - generally safe, review for deprecations">> >>
   ELSE <<>>)

RECURSIVE ImpactLoop(_)
ImpactLoop(diff) ==
  IF diff = <<>> THEN <<>> ELSE ImpactOf(Head(diff)) \o ImpactLoop(Tail(diff))

generateDeterministicSummary(diff) ==
  LET totalChanges == Sum([i \in 1..Len(diff) |-> Len(diff[i].added) + Len(diff[i].removed)])
      removedCount == Sum([i \in 1..Len(diff) |-> Len(diff[i].removed)])
      addedCount == Sum([i \in 1..Len(diff) |-> Len(diff[i].added)])
  IN [summary |-> <<"Detected ", ToString(totalChanges), " schema changes across ",
                    ToString(Len(diff)), " API(s). ", ToString(removedCount),
                    " field(s) removed, ", ToString(addedCount),
                    " field(s) added/modified.">>,
      impact |-> ImpactLoop(diff),
      risks |-> (IF removedCount > 0
                 THEN << <<"Breaking changes detected - existing clients may fail">> >>
                 ELSE <<>>)
                \o
                (IF addedCount > 5
                 THEN << <<"Significant schema expansion - review for consistency">> >>
                 ELSE <<>>)]

NoSummary == [summary |-> <<>>, impact |-> <<>>, risks |-> <<>>]

\* AI_ENABLED, AI_GATEWAY_URL, AI_API_KEY
AiConfigs == [enabled : BOOLEAN, gateway : {"", "https://gateway"}, key : {"", "key"}]

Configured(cfg) == cfg.enabled /\ cfg.gateway # "" /\ cfg.key # ""

\* what the gateway does with the request: fetch throws; or the response is
\* ok or not, carries choices[0].message.content or not, the content parses
\* and passes AISummarySchema or not, and is grounded in the diff or not
Response(throws, ok, hasContent, valid, grounded) ==
  [throws |-> throws, ok |-> ok, hasContent |-> hasContent, valid |-> valid,
   grounded |-> grounded]

GoodResponse == Response(FALSE, TRUE, TRUE, TRUE, TRUE)

GatewayResponses ==
  { Response(TRUE, FALSE, FALSE, FALSE, FALSE),
    Response(FALSE, FALSE, FALSE, FALSE, FALSE),
    Response(FALSE, TRUE, FALSE, FALSE, FALSE),
    Response(FALSE, TRUE, TRUE, FALSE, FALSE),
    Response(FALSE, TRUE, TRUE, TRUE, FALSE),
    GoodResponse }

\* summarizeDiffWithAI has not been called
NoCall == [made |-> FALSE, configured |-> FALSE, response |-> GoodResponse]

\* the content of a response that passed AISummarySchema
Validated ==
  [summary |-> <<"The Character type gained a field.">>,
   impact |-> << <<"Clients may read Character.id">> >>,
   risks |-> <<>>]

Returned(value) == [threw |-> FALSE, value |-> value]
Thrown == [threw |-> TRUE, value |-> NoSummary]

\* fault variant: no try/catch around the gateway call and the parsing
summarizeDiffWithAIMutNoCatch(diff, cfg, response) ==
  IF ~Configured(cfg) THEN Returned(generateDeterministicSummary(diff))
  ELSE IF response.throws THEN Thrown
  ELSE IF ~response.ok THEN Returned(generateDeterministicSummary(diff))
  ELSE IF ~response.hasContent THEN Returned(generateDeterministicSummary(diff))
  ELSE IF ~response.valid THEN Thrown
  ELSE IF ~response.grounded THEN Returned(generateDeterministicSummary(diff))
  ELSE Returned(Validated)

summarizeDiffWithAI(diff, cfg, response) ==
  IF ~Configured(cfg) THEN Returned(generateDeterministicSummary(diff))
  ELSE IF response.throws THEN Returned(generateDeterministicSummary(diff))
  ELSE IF ~response.ok THEN Returned(generateDeterministicSummary(diff))
  ELSE IF ~response.hasContent THEN Returned(generateDeterministicSummary(diff))
  ELSE IF ~response.valid THEN Returned(generateDeterministicSummary(diff))
  ELSE IF ~response.grounded THEN Returned(generateDeterministicSummary(diff))
  ELSE Returned(Validated)

(* ----------------------------------------------------------------------- *)
(* Teams notification                                                      *)
(* ----------------------------------------------------------------------- *)

\* sendTeamsMessage of the hardened CLI: `allowed` is the answer of
\* checkRateLimit, `responseOk` whether the POST went through with an ok status
sendTeamsMessage(webhookUrl, allowed, responseOk) ==
  IF webhookUrl = "" THEN [threw |-> FALSE, outcome |-> "skipped"]
  ELSE IF ~allowed THEN [threw |-> FALSE, outcome |-> "rate_limited"]
  ELSE IF ~responseOk THEN [threw |-> TRUE, outcome |-> "failed"]
  ELSE [threw |-> FALSE, outcome |-> "sent"]

\* sendTeamsMessage of the legacy CLI: no rate limit
legacySendTeamsMessage(webhookUrl, responseOk) ==
  IF ~responseOk THEN [threw |-> TRUE, outcome |-> "failed"]
  ELSE [threw |-> FALSE, outcome |-> "sent"]

\* fault variant: a failed Teams message escapes to the catch block of main
AfterTeamsMutFatal(threw) == IF threw THEN "catch" ELSE "finish"

\* try { await sendTeamsMessage(...) } catch { logger.error(...) }
AfterTeams(threw) == "finish"

(* ----------------------------------------------------------------------- *)
(* State                                                                   *)
(* ----------------------------------------------------------------------- *)

VARIABLES
  wPc, wKill, wCron, wNow, wRes,    \* canRunNow on a drawn environment and time
  tPc, tWebhook, tKey,              \* sendTeamsMessage (enhanced): position, webhook, dedupe key
  tLimit,                           \* TEAMS_RATE_LIMIT of the environment
  tClock,                           \* Date.now() in ticks of 10 minutes
  tCache,                           \* .cache/teams_<key>.txt: time last sent, per key
  tPosts,                           \* history: times of the messages posted in the last window
  gSafe, gQps, gConc,               \* guardedFetch: SAFE_HTTP_METHODS, MAX_QPS, MAX_CONCURRENCY
  gNow,                             \* guardedFetch: Date.now() in ticks of 100 ms
  tokens, lastRefill,               \* RateLimiter fields (tokens in tenths)
  running, queue,                   \* ConcurrencyLimiter fields
  calls,                            \* guardedFetch: position and locals of each call
  recent,                           \* history: fetch attempts started in the last second
  fPc, fTarget, fSafe, fResponse, fOut,   \* one iteration of the target loop on a drawn target and response
  dPc, dPrev, dCurr, dRes,          \* diffSchemas applied to a pair of signatures
  cDiff, cRes, cGateEnv, cBlock,    \* classifySeverity and the gate applied to a diff map
  xPc, xTypes, xRes,                \* extractGraphQLSchema applied to a list of types
  snapshotFile,                     \* snapshots/latest.json: [exists, valid, content]
  prBodyFile,                       \* .pr_body.md: [exists, severity]
  pc,                               \* position of the running drift check
  variant,                          \* "hardened" or "legacy" CLI
  env,                              \* environment of the process: [kill, mode, gate, webhook]
  previous, current, perTargetDiff, \* locals of main
  idx,                              \* index of the next target in the loop
  classification, aiSummary, shouldBlock, exitCode, reportKind,
  processExitCode,                  \* process.exitCode (0 when never set)
  attempted, failed,                \* history: targets fetched / failed in this run
  caught, classified, writes, consoleSent,  \* history of this run
  startFiles,                       \* history: the two files as the process found them
  permChecks,                       \* history: calls of canRunNow in this run
  baselineRead,                     \* history: the snapshot file was looked up
  updateCalled,                     \* history: updateSnapshotsPROnly was called
  aiCall,                           \* history: how summarizeDiffWithAI was served
  teams                             \* history: what became of the Teams message

diffVars == <<dPc, dPrev, dCurr, dRes>>
classVars == <<cDiff, cRes, cGateEnv, cBlock>>
extractVars == <<xPc, xTypes, xRes>>
windowVars == <<wPc, wKill, wCron, wNow, wRes>>
alertVars == <<tPc, tWebhook, tKey, tLimit, tClock, tCache, tPosts>>
guardVars == <<gSafe, gQps, gConc, gNow, tokens, lastRefill, running, queue, calls, recent>>
fetchVars == <<fPc, fTarget, fSafe, fResponse, fOut>>
fileVars == <<snapshotFile, prBodyFile>>
localVars == <<previous, current, perTargetDiff, idx, classification, aiSummary,
               shouldBlock, exitCode, reportKind>>
obsVars == <<startFiles, permChecks, baselineRead, updateCalled, aiCall, teams>>
histVars == <<attempted, failed, caught, classified, writes, consoleSent, obsVars>>
runVars == <<pc, variant, env, localVars, processExitCode, histVars>>
vars == <<diffVars, classVars, extractVars, windowVars, alertVars, guardVars, fetchVars, fileVars, runVars>>

NoClassification == [severity |-> "minor", reasons |-> <<>>]
DefaultEnv == [kill |-> "false", mode |-> "", gate |-> "", webhook |-> ""]

\* no file on disk
Absent ==
  [snapshot |-> [exists |-> FALSE, valid |-> TRUE, content |-> <<>>],
   prBody |-> [exists |-> FALSE, severity |-> "minor"]]

\* no drift check is running
RunIdle ==
  /\ pc = "idle"
  /\ variant = "hardened"
  /\ env = DefaultEnv
  /\ previous = <<>>
  /\ current = <<>>
  /\ perTargetDiff = <<>>
  /\ idx = 0
  /\ classification = NoClassification
  /\ aiSummary = NoSummary
  /\ shouldBlock = FALSE
  /\ exitCode = 0
  /\ reportKind = "none"
  /\ processExitCode = 0
  /\ attempted = <<>>
  /\ failed = {}
  /\ caught = FALSE
  /\ classified = FALSE
  /\ writes = 0
  /\ consoleSent = FALSE
  /\ startFiles = Absent
  /\ permChecks = 0
  /\ baselineRead = FALSE
  /\ updateCalled = FALSE
  /\ aiCall = NoCall
  /\ teams = "none"

NoFiles ==
  /\ snapshotFile = Absent.snapshot
  /\ prBodyFile = Absent.prBody

EmptyDiff == [added |-> <<>>, removed |-> <<>>]

DiffIdle ==
  /\ dPc = "idle"
  /\ dPrev = <<>>
  /\ dCurr = <<>>
  /\ dRes = EmptyDiff

ClassIdle ==
  /\ cDiff = <<>>
  /\ cRes = [severity |-> "minor", reasons |-> <<>>]
  /\ cGateEnv = ""
  /\ cBlock = [ci |-> FALSE, upd |-> FALSE]

ExtractIdle ==
  /\ xPc = "idle"
  /\ xTypes = <<>>
  /\ xRes = <<>>

NoRequest == [sent |-> FALSE, method |-> "", body |-> "none"]

\* the loop body has not run: nothing requested, nothing stored
NoOutcome ==
  [request |-> NoRequest, failed |-> FALSE, kind |-> "none", schema |-> <<>>,
   raw |-> [t |-> "null", entries |-> <<>>]]

FetchIdle ==
  /\ fPc = "idle"
  /\ fTarget = [id |-> <<>>, method |-> "GET", url |-> <<>>,
                body |-> [present |-> FALSE, hasQuery |-> FALSE]]
  /\ fSafe = <<>>
  /\ fResponse = [transport |-> "error", ok |-> FALSE, parses |-> FALSE,
                  body |-> [json |-> [t |-> "null", entries |-> <<>>],
                            hasSchema |-> FALSE, types |-> <<>>]]
  /\ fOut = NoOutcome

\* no guardedFetch call was made
GuardIdle ==
  /\ gSafe = <<>>
  /\ gQps = 1
  /\ gConc = 1
  /\ gNow = 0
  /\ tokens = 0
  /\ lastRefill = 0
  /\ running = 0
  /\ queue = <<>>
  /\ calls = <<>>
  /\ recent = <<>>

\* no Teams message was attempted
AlertIdle ==
  /\ tPc = "idle"
  /\ tWebhook = ""
  /\ tKey = ""
  /\ tLimit = <<>>
  /\ tClock = 0
  /\ tCache = <<>>
  /\ tPosts = <<>>

\* canRunNow was not called
WindowIdle ==
  /\ wPc = "idle"
  /\ wKill = ""
  /\ wCron = <<>>
  /\ wNow = [minute |-> 0, hour |-> 0]
  /\ wRes = [allowed |-> TRUE, reason |-> "none"]

(* ----------------------------------------------------------------------- *)
(* diffSchemas on bounded signatures                                       *)
(* ----------------------------------------------------------------------- *)

MaxTokens == 2

Tokens == { <<"id", ":", "ID">>,
            <<"name", ":", "String">>,
            <<"name", ":", "String">> \o DEPRECATED }

\* token lists without repetition, in every order
TokenLists ==
  { s \in UNION { [1..n -> Tokens] : n \in 0..MaxTokens } :
      \A i, j \in 1..Len(s) : i # j => s[i] # s[j] }

KeyA == <<"a">>
KeyB == <<"b">>
KeyType == <<"Character">>

ValuesA == { Undefined, Scalar("string"), Scalar("number") }
ValuesB == { Undefined, Scalar("number"), Scalar("boolean") }
ValuesType == { Undefined, Scalar("object") } \cup { List(s) : s \in TokenLists }

PutIfDefined(obj, key, value) ==
  IF value = Undefined THEN obj ELSE Put(obj, key, value)

Reverse(s) == [i \in 1..Len(s) |-> s[Len(s) + 1 - i]]

DiffSignatures ==
  { PutIfDefined(PutIfDefined(PutIfDefined(<<>>, KeyA, va), KeyB, vb), KeyType, vt) :
      va \in ValuesA, vb \in ValuesB, vt \in ValuesType }

DiffInit ==
  /\ dPc = "input"
  /\ dPrev \in DiffSignatures
  /\ dCurr \in DiffSignatures \cup { Reverse(s) : s \in DiffSignatures }
  /\ dRes = EmptyDiff
  /\ ClassIdle
  /\ ExtractIdle
  /\ WindowIdle
  /\ AlertIdle
  /\ GuardIdle
  /\ FetchIdle
  /\ NoFiles
  /\ RunIdle

CallDiffSchemas ==
  /\ dPc = "input"
  /\ dRes' = diffSchemas(dPrev, dCurr)
  /\ dPc' = "done"
  /\ UNCHANGED <<dPrev, dCurr, classVars, extractVars, windowVars, alertVars, guardVars, fetchVars, fileVars, runVars>>

DiffNext == CallDiffSchemas

SpecDiff == DiffInit /\ [][DiffNext]_vars

(* ----------------------------------------------------------------------- *)
(* Properties of diffSchemas (SpecDiff)                                    *)
(* ----------------------------------------------------------------------- *)

DOT == <<".">>

\* the entries of a result list that were emitted for `key`
EntriesFor(list, key) == { i \in 1..Len(list) : StartsWith(list[i], key) }

\* number of positions of `list` holding `x`
Count(list, x) == Cardinality({ i \in 1..Len(list) : list[i] = x })

BothScalar(key) ==
  /\ Get(dPrev, key) # Undefined /\ ~Get(dPrev, key).isArr
  /\ Get(dCurr, key) # Undefined /\ ~Get(dCurr, key).isArr

BothList(key) == Get(dPrev, key).isArr /\ Get(dCurr, key).isArr

DiffKeyPool == { KeyA, KeyB, KeyType }

\* C5: diffSchemas(S, S) returns added = [] and removed = [] for every
\* signature S, scalar-tag maps and token-list maps alike.
C5_DiffSelfEmpty ==
  (dPc = "done" /\ dPrev = dCurr) => (dRes.added = <<>> /\ dRes.removed = <<>>)

C5_Witness ==
  /\ dPc = "done"
  /\ dPrev = dCurr
  /\ Get(dPrev, KeyA) = Scalar("string")
  /\ Get(dPrev, KeyType).isArr /\ Len(Get(dPrev, KeyType).items) = 2
  /\ dRes = EmptyDiff

\* C6: diffSchemas({}, S) returns added = exactly the keys of S (each once,
\* none flagged "(type changed)", none in the dotted "<type>.<token>" form)
\* and removed = [].
C6_FirstRunAllAdded ==
  (dPc = "done" /\ dPrev = <<>>) =>
    /\ Range(dRes.added) = Range(ObjectKeys(dCurr))
    /\ Len(dRes.added) = Len(dCurr)
    /\ \A i \in 1..Len(dRes.added) :
         ~Includes(dRes.added[i], TYPE_CHANGED) /\ ~Includes(dRes.added[i], DOT)
    /\ dRes.removed = <<>>

C6_Witness ==
  /\ dPc = "done"
  /\ dPrev = <<>>
  /\ Len(dCurr) = 3
  /\ Get(dCurr, KeyType).isArr /\ Len(Get(dCurr, KeyType).items) = 2
  /\ Range(dRes.added) = { KeyA, KeyB, KeyType }

\* C7: a key present in both signatures with different scalar kind tags
\* yields exactly one added entry "<key> (type changed)", nothing else for
\* that key, and nothing in removed; with the same tag it yields no entry.
C7_TypeChange ==
  dPc = "done" =>
    \A key \in DiffKeyPool :
      BothScalar(key) =>
        IF Get(dPrev, key).tag # Get(dCurr, key).tag
        THEN /\ Count(dRes.added, key \o <<" ">> \o TYPE_CHANGED) = 1
             /\ Cardinality(EntriesFor(dRes.added, key)) = 1
             /\ EntriesFor(dRes.removed, key) = {}
        ELSE /\ EntriesFor(dRes.added, key) = {}
             /\ EntriesFor(dRes.removed, key) = {}

\* Scenario C, next to an unchanged key
C7_Witness ==
  /\ dPc = "done"
  /\ Get(dPrev, KeyA) = Scalar("string") /\ Get(dCurr, KeyA) = Scalar("number")
  /\ Get(dPrev, KeyB) = Scalar("boolean") /\ Get(dCurr, KeyB) = Scalar("boolean")
  /\ Get(dPrev, KeyType) = Undefined /\ Get(dCurr, KeyType) = Undefined
  /\ dRes = [added |-> << <<"a", " ", "(type changed)">> >>, removed |-> <<>>]

\* C8: for a key holding a token list in both signatures, added holds
\* "<type>.<token>" exactly for the tokens of the current list missing from
\* the previous one, removed exactly for those of the previous list missing
\* from the current one; shared tokens yield nothing, wherever they stand.
C8_TokenSetCompare ==
  dPc = "done" =>
    \A key \in DiffKeyPool :
      BothList(key) =>
        LET p == Range(Get(dPrev, key).items)
            c == Range(Get(dCurr, key).items)
        IN /\ { dRes.added[i] : i \in EntriesFor(dRes.added, key) }
                = { key \o DOT \o t : t \in c \ p }
           /\ { dRes.removed[i] : i \in EntriesFor(dRes.removed, key) }
                = { key \o DOT \o t : t \in p \ c }

\* a shared token that moved from first to second place, next to a new one
C8_Witness ==
  /\ dPc = "done"
  /\ Get(dPrev, KeyType) = List(<< <<"name", ":", "String">> >>)
  /\ Get(dCurr, KeyType) = List(<< <<"id", ":", "ID">>, <<"name", ":", "String">> >>)
  /\ Get(dPrev, KeyA) = Undefined /\ Get(dCurr, KeyA) = Undefined
  /\ Get(dPrev, KeyB) = Undefined /\ Get(dCurr, KeyB) = Undefined
  /\ dRes = [added |-> << <<"Character", ".", "id", ":", "ID">> >>, removed |-> <<>>]

SharedKeys == Range(ObjectKeys(dPrev)) \cap Range(ObjectKeys(dCurr))

\* every key of both signatures holds the same kind tag in both
SameScalarTags ==
  \A key \in SharedKeys :
    BothScalar(key) /\ Get(dPrev, key).tag = Get(dCurr, key).tag

\* C40: on two signatures whose shared keys hold the same kind tag, the
\* result of the hardened diffSchemas is the result of the legacy one.  On
\* any two signatures every entry of the legacy result is a key and is in
\* the hardened result; what the hardened result holds beyond that is, for
\* a shared key, its type-change entry or token entries.
C40_LegacyAgrees ==
  dPc = "done" =>
    LET legacy == legacyDiffSchemas(dPrev, dCurr)
        moreAdded == Range(dRes.added) \ Range(legacy.added)
        moreRemoved == Range(dRes.removed) \ Range(legacy.removed)
    IN /\ SameScalarTags =>
            /\ Range(dRes.added) = Range(legacy.added)
            /\ Range(dRes.removed) = Range(legacy.removed)
            /\ dRes = legacy
       /\ Range(legacy.added) = Range(ObjectKeys(dCurr)) \ Range(ObjectKeys(dPrev))
       /\ Range(legacy.removed) = Range(ObjectKeys(dPrev)) \ Range(ObjectKeys(dCurr))
       /\ Range(legacy.added) \subseteq Range(dRes.added)
       /\ Range(legacy.removed) \subseteq Range(dRes.removed)
       /\ \A e \in moreAdded : \E key \in SharedKeys :
            \/ e = key \o <<" ">> \o TYPE_CHANGED /\ ~BothList(key)
            \/ StartsWith(e, key \o DOT) /\ BothList(key)
       /\ \A e \in moreRemoved : \E key \in SharedKeys :
            StartsWith(e, key \o DOT) /\ BothList(key)

\* `a` holds the same tag on both sides, `b` is gone and Character is new
C40_Witness ==
  /\ dPc = "done"
  /\ dPrev = << [k |-> KeyA, v |-> Scalar("string")], [k |-> KeyB, v |-> Scalar("number")] >>
  /\ dCurr = << [k |-> KeyA, v |-> Scalar("string")], [k |-> KeyType, v |-> Scalar("object")] >>
  /\ dRes = [added |-> <<KeyType>>, removed |-> <<KeyB>>]
  /\ dRes = legacyDiffSchemas(dPrev, dCurr)

(* ----------------------------------------------------------------------- *)
(* classifySeverity and the severity gate on a growing diff map            *)
(* ----------------------------------------------------------------------- *)

MaxEntries == 3

ClassTargets == { <<"api_1">>, <<"api_2">> }

ClassTokens == { <<"b">>,
                 <<"a", " ", "(type changed)">>,
                 <<"Character", ".", "name", ":", "String", "[DEPRECATED]">> }

\* DRIFT_SEVERITY_GATE as found in the environment ("" when unset)
GateEnvs == { "", "major", "minor", "none" }

RECURSIVE TotalEntries(_)
TotalEntries(diff) ==
  IF diff = <<>> THEN 0
  ELSE Len(Head(diff).added) + Len(Head(diff).removed) + TotalEntries(Tail(diff))

Gates(severity, gateEnv) ==
  [ci |-> shouldBlockCI(severity, gateEnv),
   upd |-> UpdateShouldBlock(severity, gateEnv)]

ClassInit ==
  /\ cDiff = <<>>
  /\ cRes = classifySeverity(<<>>)
  /\ cGateEnv \in GateEnvs
  /\ cBlock = Gates(classifySeverity(<<>>).severity, cGateEnv)
  /\ DiffIdle
  /\ ExtractIdle
  /\ WindowIdle
  /\ AlertIdle
  /\ GuardIdle
  /\ FetchIdle
  /\ NoFiles
  /\ RunIdle

Reclassify ==
  /\ cRes' = classifySeverity(cDiff')
  /\ cBlock' = Gates(classifySeverity(cDiff').severity, cGateEnv)
  /\ UNCHANGED <<cGateEnv, diffVars, extractVars, windowVars, alertVars, guardVars, fetchVars, fileVars, runVars>>

AddTarget(id) ==
  /\ \A i \in 1..Len(cDiff) : cDiff[i].id # id
  /\ cDiff' = Append(cDiff, [id |-> id, added |-> <<>>, removed |-> <<>>])
  /\ Reclassify

AddAdded(i, tok) ==
  /\ TotalEntries(cDiff) < MaxEntries
  /\ cDiff' = [cDiff EXCEPT ![i].added = Append(@, tok)]
  /\ Reclassify

AddRemoved(i, tok) ==
  /\ TotalEntries(cDiff) < MaxEntries
  /\ cDiff' = [cDiff EXCEPT ![i].removed = Append(@, tok)]
  /\ Reclassify

ClassNext ==
  \/ \E id \in ClassTargets : AddTarget(id)
  \/ \E i \in 1..Len(cDiff), tok \in ClassTokens : AddAdded(i, tok)
  \/ \E i \in 1..Len(cDiff), tok \in ClassTokens : AddRemoved(i, tok)

SpecClassify == ClassInit /\ [][ClassNext]_vars

(* ----------------------------------------------------------------------- *)
(* Properties of classifySeverity and the gate (SpecClassify)              *)
(* ----------------------------------------------------------------------- *)

\* some target of the diff map has a removed entry or a type-changed entry
Breaking(diff) ==
  \E i \in 1..Len(diff) :
    \/ Len(diff[i].removed) > 0
    \/ \E j \in 1..Len(diff[i].added) : Includes(diff[i].added[j], TYPE_CHANGED)

RECURSIVE RemovedCount(_)
RemovedCount(diff) ==
  IF diff = <<>> THEN 0 ELSE Len(Head(diff).removed) + RemovedCount(Tail(diff))

\* C2: shouldBlock of updateSnapshotsPROnly and shouldBlockCI are true exactly
\* when the severity is 'major' or equals the configured gate (default
\* 'major'): gate 'major' never blocks 'minor', gate 'minor' blocks every
\* classification, and 'major' blocks under every gate value.
C2_ShouldBlock ==
  LET gate == IF cGateEnv = "" THEN "major" ELSE cGateEnv
  IN /\ cBlock.upd <=> (cRes.severity = "major" \/ cRes.severity = gate)
     /\ cBlock.ci <=> (cRes.severity = "major" \/ cRes.severity = gate)
     /\ (gate = "major" /\ cRes.severity = "minor") => (~cBlock.upd /\ ~cBlock.ci)
     /\ gate = "minor" => (cBlock.upd /\ cBlock.ci)
     /\ cRes.severity = "major" => (cBlock.upd /\ cBlock.ci)

C2_Witness ==
  /\ cGateEnv = "minor"
  /\ TotalEntries(cDiff) > 0
  /\ cRes.severity = "minor"
  /\ cBlock = [ci |-> TRUE, upd |-> TRUE]

C4_ReasonsNeverEmpty ==
  /\ Len(cRes.reasons) > 0
  /\ TotalEntries(cDiff) = 0 =>
       /\ cRes.severity = "minor"
       /\ cRes.reasons = << <<"[MINOR] No significant changes detected">> >>

C4_Witness ==
  /\ Len(cDiff) = 2
  /\ TotalEntries(cDiff) = 0
  /\ Len(cRes.reasons) = 1

\* the reason names the target right after its tag and quotes the token
ReasonAbout(reason, tag, id, token) ==
  /\ StartsWith(reason, <<tag>> \o id)
  /\ Includes(reason, token)

Targets ==
  << [id |-> <<"github_api">>, method |-> "GET",
      url |-> <<"https://api.github.com/", "repos">>,
      body |-> [present |-> FALSE, hasQuery |-> FALSE]],
     [id |-> <<"rick_morty_graphql">>, method |-> "POST",
      url |-> <<"https://rickandmortyapi.com/", "graphql">>,
      body |-> [present |-> TRUE, hasQuery |-> TRUE]] >>

TargetIds == [i \in 1..Len(Targets) |-> Targets[i].id]

\* a response body: the parsed JSON and, when it has data.__schema, its types
Body(json, hasSchema, types) == [json |-> json, hasSchema |-> hasSchema, types |-> types]

Member(k, t) == [k |-> k, v |-> Json(t, <<>>)]

RestBodies ==
  { Body(Json("object", <<Member(<<"a">>, "string")>>), FALSE, <<>>),
    Body(Json("object", <<Member(<<"a">>, "string"), Member(<<"b">>, "number")>>), FALSE, <<>>),
    Body(Json("object", <<Member(<<"a">>, "number")>>), FALSE, <<>>),
    Body(Json("string", <<>>), FALSE, <<>>) }

NameField(deprecated) ==
  [name |-> <<"name">>, isDeprecated |-> deprecated,
   type |-> [name |-> <<>>, kind |-> "NON_NULL", ofTypeName |-> <<"String">>]]

IdField ==
  [name |-> <<"id">>, isDeprecated |-> FALSE,
   type |-> [name |-> <<"ID">>, kind |-> "SCALAR", ofTypeName |-> <<>>]]

BuiltinTypes ==
  << [kind |-> "OBJECT", name |-> <<"__", "Type">>, fields |-> <<NameField(FALSE)>>],
     [kind |-> "OBJECT", name |-> <<"Query">>, fields |-> <<IdField>>],
     [kind |-> "SCALAR", name |-> <<"String">>, fields |-> <<>>] >>

Introspection(fields) ==
  Body(Json("object", <<Member(<<"data">>, "object")>>), TRUE,
       BuiltinTypes \o <<[kind |-> "OBJECT", name |-> <<"Character">>, fields |-> fields]>>)

\* {"errors": [{...}]}: the answer of a server that refuses introspection
ErrorsBody ==
  Body(Json("object", <<[k |-> <<"errors">>,
                         v |-> Json("array", <<Member(<<"0">>, "object")>>)]>>),
       FALSE, <<>>)

\* bodies of the GraphQL target: introspection results carrying
\* data.__schema, and one body without it
IntrospectionBodies ==
  { ErrorsBody,
    Introspection(<<NameField(FALSE)>>),
    Introspection(<<NameField(FALSE), IdField>>),
    Introspection(<<NameField(TRUE), IdField>>) }

BodiesOf(target) ==
  IF isGraphQLTarget(target.url, target.body) THEN IntrospectionBodies ELSE RestBodies

\* KILL_SWITCH, SNAPSHOT_UPDATE_MODE, DRIFT_SEVERITY_GATE, TEAMS_WEBHOOK_URL
\* ("" when unset)
Envs == [kill : {"false", "true"}, mode : {"", "DIRECT"}, gate : {"", "minor"},
         webhook : {"", "https://hook"}]

\* the legacy CLI reads the webhook only
EnvsOf(v) ==
  IF v = "hardened" THEN Envs
  ELSE { e \in Envs : e.kill = "false" /\ e.mode = "" /\ e.gate = "" }

\* previous[id] || {}
GetOr(obj, key, default) ==
  IF \E i \in 1..Len(obj) : obj[i].k = key
  THEN obj[CHOOSE i \in 1..Len(obj) : obj[i].k = key].v
  ELSE default

Has(obj, key) == \E i \in 1..Len(obj) : obj[i].k = key

\* a member of a response used as a schema without extraction: a list keeps
\* its elements, an object is itself, a primitive is told by its JSON type
RawValue(value) ==
  IF value.t = "array"
  THEN List([i \in 1..Len(value.entries) |->
               IF value.entries[i].v.t \in {"object", "array"} THEN ObjectItem
               ELSE <<value.entries[i].v.t>>])
  ELSE IF value.t = "object" THEN RawObject
  ELSE Scalar(value.t)

\* json as Level1Schema, for a response body that is an object
RawSchema(json) ==
  [i \in 1..Len(json.entries) |->
     [k |-> json.entries[i].k, v |-> RawValue(json.entries[i].v)]]

\* what fetchJson returns for a response that is ok and parses, and the
\* schema main derives from it
SchemaOf(target, body) ==
  IF isGraphQLTarget(target.url, target.body)
  THEN IF body.hasSchema THEN extractGraphQLSchema(body.types)
       ELSE RawSchema(body.json)
  ELSE buildLevel1Schema(body.json)

\* fault variant: the kill switch is not consulted
canRunNowMutNoKillSwitch(killEnv) == [allowed |-> TRUE]

\* canRunNow: the kill switch, then a window check that allows every time
canRunNow(killEnv) == [allowed |-> ~(killEnv = "true")]

\* fault variant: any drift fails the run
ExitCodeAfterUpdateMutAlways(block) == 1

\* if (updateResult.shouldBlock) exitCode = 1
ExitCodeAfterUpdate(block) == IF block THEN 1 ELSE 0

\* a file that writeFileSync opened and could not fill
Truncated == [exists |-> TRUE, valid |-> FALSE, content |-> <<>>]

Written(content) == [exists |-> TRUE, valid |-> TRUE, content |-> content]

Init ==
  /\ DiffIdle
  /\ ClassIdle
  /\ ExtractIdle
  /\ WindowIdle
  /\ AlertIdle
  /\ GuardIdle
  /\ FetchIdle
  /\ NoFiles
  /\ RunIdle

\* a new process starts
StartRun(v, e) ==
  /\ pc = "idle"
  /\ e \in EnvsOf(v)
  /\ variant' = v
  /\ env' = e
  /\ startFiles' = [snapshot |-> snapshotFile, prBody |-> prBodyFile]
  /\ pc' = IF v = "hardened" THEN "preflight" ELSE "load"
  /\ UNCHANGED <<diffVars, classVars, extractVars, windowVars, alertVars, guardVars, fetchVars, fileVars, localVars, processExitCode,
                 attempted, failed, caught, classified, writes, consoleSent,
                 permChecks, baselineRead, updateCalled, aiCall, teams>>

\* assertCanRun()
Preflight ==
  /\ pc = "preflight"
  /\ permChecks' = permChecks + 1
  /\ pc' = IF canRunNow(env.kill).allowed THEN "load" ELSE "catch"
  /\ UNCHANGED <<diffVars, classVars, extractVars, windowVars, alertVars, guardVars, fetchVars, fileVars, variant, env, localVars,
                 processExitCode, attempted, failed, caught, classified, writes,
                 consoleSent, startFiles, baselineRead, updateCalled, aiCall, teams>>

\* load the targets and the previous snapshot; JSON.parse throws on a
\* snapshot file that does not hold JSON
Load ==
  /\ pc = "load"
  /\ baselineRead' = TRUE
  /\ IF snapshotFile.exists /\ ~snapshotFile.valid
     THEN /\ pc' = "catch"
          /\ UNCHANGED <<previous, current, perTargetDiff, idx>>
     ELSE /\ previous' = IF snapshotFile.exists THEN snapshotFile.content ELSE <<>>
          /\ current' = <<>>
          /\ perTargetDiff' = <<>>
          /\ idx' = 1
          /\ pc' = "loop"
  /\ UNCHANGED <<diffVars, classVars, extractVars, windowVars, alertVars, guardVars, fetchVars, fileVars, variant, env, classification,
                 aiSummary, shouldBlock, exitCode, reportKind, processExitCode,
                 attempted, failed, caught, classified, writes, consoleSent,
                 startFiles, permChecks, updateCalled, aiCall, teams>>

\* fault variant: the snapshot is written through after every fetched target
FetchOkMutWriteThrough(body) ==
  /\ pc = "loop"
  /\ idx <= Len(Targets)
  /\ body \in BodiesOf(Targets[idx])
  /\ LET target == Targets[idx]
         schema == SchemaOf(target, body)
         prev == GetOr(previous, target.id, <<>>)
         diff == IF variant = "hardened" THEN diffSchemas(prev, schema)
                 ELSE legacyDiffSchemas(prev, schema)
     IN /\ current' = Put(current, target.id, schema)
        /\ perTargetDiff' =
             IF Len(diff.added) > 0 \/ Len(diff.removed) > 0
             THEN Append(perTargetDiff,
                         [id |-> target.id, added |-> diff.added, removed |-> diff.removed])
             ELSE perTargetDiff
        /\ attempted' = Append(attempted, target.id)
  /\ snapshotFile' = Written(current')
  /\ idx' = idx + 1
  /\ UNCHANGED <<diffVars, classVars, extractVars, windowVars, alertVars, guardVars, fetchVars, prBodyFile, pc, variant, env, previous,
                 classification, aiSummary, shouldBlock, exitCode, reportKind,
                 processExitCode, failed, caught, classified, writes, consoleSent,
                 obsVars>>

\* one iteration of the target loop whose fetch succeeds with `body`
FetchOk(body) ==
  /\ pc = "loop"
  /\ idx <= Len(Targets)
  /\ body \in BodiesOf(Targets[idx])
  /\ LET target == Targets[idx]
         schema == SchemaOf(target, body)
         prev == GetOr(previous, target.id, <<>>)
         diff == IF variant = "hardened" THEN diffSchemas(prev, schema)
                 ELSE legacyDiffSchemas(prev, schema)
     IN /\ current' = Put(current, target.id, schema)
        /\ perTargetDiff' =
             IF Len(diff.added) > 0 \/ Len(diff.removed) > 0
             THEN Append(perTargetDiff,
                         [id |-> target.id, added |-> diff.added, removed |-> diff.removed])
             ELSE perTargetDiff
        /\ attempted' = Append(attempted, target.id)
  /\ idx' = idx + 1
  /\ UNCHANGED <<diffVars, classVars, extractVars, windowVars, alertVars, guardVars, fetchVars, fileVars, pc, variant, env, previous,
                 classification, aiSummary, shouldBlock, exitCode, reportKind,
                 processExitCode, failed, caught, classified, writes, consoleSent,
                 obsVars>>

\* fault variant: a failed fetch escapes to the catch block of main
FetchFailMutAbort(reason) ==
  /\ pc = "loop"
  /\ idx <= Len(Targets)
  /\ attempted' = Append(attempted, Targets[idx].id)
  /\ failed' = failed \cup {Targets[idx].id}
  /\ pc' = "catch"
  /\ UNCHANGED <<diffVars, classVars, extractVars, windowVars, alertVars, guardVars, fetchVars, fileVars, idx, variant, env, previous,
                 current, perTargetDiff, classification, aiSummary, shouldBlock, exitCode,
                 reportKind, processExitCode, caught, classified, writes, consoleSent,
                 obsVars>>

\* one iteration whose fetch throws: transport error, status not ok, or a
\* body that does not parse; the catch inside the loop logs it
FetchFail(reason) ==
  /\ pc = "loop"
  /\ idx <= Len(Targets)
  /\ reason \in {"transport", "status", "parse"}
  /\ attempted' = Append(attempted, Targets[idx].id)
  /\ failed' = failed \cup {Targets[idx].id}
  /\ idx' = idx + 1
  /\ UNCHANGED <<diffVars, classVars, extractVars, windowVars, alertVars, guardVars, fetchVars, fileVars, pc, variant, env, previous,
                 current, perTargetDiff, classification, aiSummary, shouldBlock, exitCode,
                 reportKind, processExitCode, caught, classified, writes, consoleSent,
                 obsVars>>

LoopDone == pc = "loop" /\ idx > Len(Targets)

\* fault variant: the baseline is written whether or not anything differs
AnalyzeStableMutWrite ==
  /\ LoopDone
  /\ variant = "hardened"
  /\ ~hasChanges(perTargetDiff)
  /\ snapshotFile' = Written(current)
  /\ reportKind' = "stable"
  /\ pc' = "notify"
  /\ UNCHANGED <<diffVars, classVars, extractVars, windowVars, alertVars, guardVars, fetchVars, prBodyFile, variant, env, previous,
                 current, perTargetDiff, idx, classification, aiSummary, shouldBlock,
                 exitCode, processExitCode, histVars>>

\* fault variant: a run with failed targets and no drift is made blocking
AnalyzeStableMutEscalate ==
  /\ LoopDone
  /\ variant = "hardened"
  /\ ~hasChanges(perTargetDiff)
  /\ reportKind' = "stable"
  /\ shouldBlock' = (failed # {})
  /\ exitCode' = (IF failed # {} THEN 1 ELSE 0)
  /\ pc' = "notify"
  /\ UNCHANGED <<diffVars, classVars, extractVars, windowVars, alertVars, guardVars, fetchVars, fileVars, variant, env, previous,
                 current, perTargetDiff, idx, classification, aiSummary,
                 processExitCode, histVars>>

\* hardened: no drift, the success report is prepared
AnalyzeStable ==
  /\ LoopDone
  /\ variant = "hardened"
  /\ ~hasChanges(perTargetDiff)
  /\ reportKind' = "stable"
  /\ pc' = "notify"
  /\ UNCHANGED <<diffVars, classVars, extractVars, windowVars, alertVars, guardVars, fetchVars, fileVars, variant, env, previous,
                 current, perTargetDiff, idx, classification, aiSummary, shouldBlock,
                 exitCode, processExitCode, histVars>>

\* hardened: drift, classify it
ClassifyDrift ==
  /\ LoopDone
  /\ variant = "hardened"
  /\ hasChanges(perTargetDiff)
  /\ classification' = classifySeverity(perTargetDiff)
  /\ classified' = TRUE
  /\ pc' = "summarize"
  /\ UNCHANGED <<diffVars, classVars, extractVars, windowVars, alertVars, guardVars, fetchVars, fileVars, variant, env, previous,
                 current, perTargetDiff, idx, aiSummary, shouldBlock, exitCode, reportKind,
                 processExitCode, attempted, failed, caught, writes, consoleSent,
                 obsVars>>

\* const aiSummary = await summarizeDiffWithAI(perTargetDiff); the gateway
\* is called only when the AI settings are complete
Summarize(cfg, response) ==
  /\ pc = "summarize"
  /\ ~Configured(cfg) => response = GoodResponse
  /\ aiCall' = [made |-> TRUE, configured |-> Configured(cfg), response |-> response]
  /\ LET result == summarizeDiffWithAI(perTargetDiff, cfg, response)
     IN IF result.threw
        THEN pc' = "catch" /\ UNCHANGED aiSummary
        ELSE pc' = "update" /\ aiSummary' = result.value
  /\ UNCHANGED <<diffVars, classVars, extractVars, windowVars, alertVars, guardVars, fetchVars, fileVars, variant, env, previous,
                 current, perTargetDiff, idx, classification, shouldBlock, exitCode,
                 reportKind, processExitCode, attempted, failed, caught, classified,
                 writes, consoleSent, startFiles, permChecks, baselineRead,
                 updateCalled, teams>>

\* fault variant: the mode is checked after the snapshot was written
UpdateRejectedMutWriteFirst ==
  /\ pc = "update"
  /\ UpdateMode(env.mode) # "PR_ONLY"
  /\ updateCalled' = TRUE
  /\ snapshotFile' = Written(current)
  /\ pc' = "catch"
  /\ UNCHANGED <<diffVars, classVars, extractVars, windowVars, alertVars, guardVars, fetchVars, prBodyFile, variant, env, localVars,
                 processExitCode, attempted, failed, caught, classified, writes,
                 consoleSent, startFiles, permChecks, baselineRead, aiCall, teams>>

\* updateSnapshotsPROnly refuses any mode other than PR_ONLY
UpdateRejected ==
  /\ pc = "update"
  /\ UpdateMode(env.mode) # "PR_ONLY"
  /\ updateCalled' = TRUE
  /\ pc' = "catch"
  /\ UNCHANGED <<diffVars, classVars, extractVars, windowVars, alertVars, guardVars, fetchVars, fileVars, variant, env, localVars,
                 processExitCode, attempted, failed, caught, classified, writes,
                 consoleSent, startFiles, permChecks, baselineRead, aiCall, teams>>

\* fault variant: the failed write is logged and the update carries on
UpdateWriteFailsMutSwallow(left) ==
  /\ pc = "update"
  /\ UpdateMode(env.mode) = "PR_ONLY"
  /\ left \in {"untouched", "truncated"}
  /\ updateCalled' = TRUE
  /\ snapshotFile' = IF left = "untouched" THEN snapshotFile ELSE Truncated
  /\ prBodyFile' = [exists |-> TRUE, severity |-> classification.severity]
  /\ shouldBlock' = UpdateShouldBlock(classification.severity, env.gate)
  /\ exitCode' = ExitCodeAfterUpdate(UpdateShouldBlock(classification.severity, env.gate))
  /\ reportKind' = "drift"
  /\ pc' = "notify"
  /\ UNCHANGED <<diffVars, classVars, extractVars, windowVars, alertVars, guardVars, fetchVars, variant, env, previous, current,
                 perTargetDiff, idx, classification, aiSummary, processExitCode,
                 attempted, failed, caught, classified, writes, consoleSent,
                 startFiles, permChecks, baselineRead, aiCall, teams>>

\* updateSnapshotsPROnly: mkdirSync or writeFileSync of the snapshot throws,
\* the catch logs and rethrows; the file is left as it was or truncated
UpdateWriteFails(left) ==
  /\ pc = "update"
  /\ UpdateMode(env.mode) = "PR_ONLY"
  /\ left \in {"untouched", "truncated"}
  /\ updateCalled' = TRUE
  /\ snapshotFile' = IF left = "untouched" THEN snapshotFile ELSE Truncated
  /\ pc' = "catch"
  /\ UNCHANGED <<diffVars, classVars, extractVars, windowVars, alertVars, guardVars, fetchVars, prBodyFile, variant, env, localVars,
                 processExitCode, attempted, failed, caught, classified, writes,
                 consoleSent, startFiles, permChecks, baselineRead, aiCall, teams>>

\* fault variant: a blocking classification keeps the baseline file
UpdateSnapshotMutGated ==
  /\ pc = "update"
  /\ UpdateMode(env.mode) = "PR_ONLY"
  /\ updateCalled' = TRUE
  /\ snapshotFile' = IF UpdateShouldBlock(classification.severity, env.gate)
                     THEN snapshotFile ELSE Written(current)
  /\ prBodyFile' = [exists |-> TRUE, severity |-> classification.severity]
  /\ writes' = writes + 1
  /\ shouldBlock' = UpdateShouldBlock(classification.severity, env.gate)
  /\ exitCode' = ExitCodeAfterUpdate(UpdateShouldBlock(classification.severity, env.gate))
  /\ reportKind' = "drift"
  /\ pc' = "notify"
  /\ UNCHANGED <<diffVars, classVars, extractVars, windowVars, alertVars, guardVars, fetchVars, variant, env, previous, current,
                 perTargetDiff, idx, classification, aiSummary, processExitCode,
                 attempted, failed, caught, classified, consoleSent,
                 startFiles, permChecks, baselineRead, aiCall, teams>>

\* updateSnapshotsPROnly writes the snapshot and the PR body; main takes
\* the exit code from its result and prepares the drift report
UpdateSnapshot ==
  /\ pc = "update"
  /\ UpdateMode(env.mode) = "PR_ONLY"
  /\ updateCalled' = TRUE
  /\ snapshotFile' = Written(current)
  /\ prBodyFile' = [exists |-> TRUE, severity |-> classification.severity]
  /\ writes' = writes + 1
  /\ shouldBlock' = UpdateShouldBlock(classification.severity, env.gate)
  /\ exitCode' = ExitCodeAfterUpdate(UpdateShouldBlock(classification.severity, env.gate))
  /\ reportKind' = "drift"
  /\ pc' = "notify"
  /\ UNCHANGED <<diffVars, classVars, extractVars, windowVars, alertVars, guardVars, fetchVars, variant, env, previous, current,
                 perTargetDiff, idx, classification, aiSummary, processExitCode,
                 attempted, failed, caught, classified, consoleSent,
                 startFiles, permChecks, baselineRead, aiCall, teams>>

\* fault variant: the snapshot is written only when something differs
LegacyWriteMutGated ==
  /\ LoopDone
  /\ variant = "legacy"
  /\ snapshotFile' = IF Len(perTargetDiff) > 0 THEN Written(current) ELSE snapshotFile
  /\ writes' = writes + 1
  /\ pc' = "legacyReport"
  /\ UNCHANGED <<diffVars, classVars, extractVars, windowVars, alertVars, guardVars, fetchVars, prBodyFile, variant, env, localVars,
                 processExitCode, attempted, failed, caught, classified, consoleSent,
                 obsVars>>

\* legacy: the snapshot is written right after the loop
LegacyWrite ==
  /\ LoopDone
  /\ variant = "legacy"
  /\ snapshotFile' = Written(current)
  /\ writes' = writes + 1
  /\ pc' = "legacyReport"
  /\ UNCHANGED <<diffVars, classVars, extractVars, windowVars, alertVars, guardVars, fetchVars, prBodyFile, variant, env, localVars,
                 processExitCode, attempted, failed, caught, classified, consoleSent,
                 obsVars>>

LegacyReport ==
  /\ pc = "legacyReport"
  /\ reportKind' = IF Len(perTargetDiff) = 0 THEN "stable" ELSE "drift"
  /\ pc' = "notify"
  /\ UNCHANGED <<diffVars, classVars, extractVars, windowVars, alertVars, guardVars, fetchVars, fileVars, variant, env, previous,
                 current, perTargetDiff, idx, classification, aiSummary, shouldBlock,
                 exitCode, processExitCode, histVars>>

\* sendConsoleMessage
Notify ==
  /\ pc = "notify"
  /\ consoleSent' = TRUE
  /\ pc' = "teams"
  /\ UNCHANGED <<diffVars, classVars, extractVars, windowVars, alertVars, guardVars, fetchVars, fileVars, variant, env, localVars,
                 processExitCode, attempted, failed, caught, classified, writes,
                 obsVars>>

\* no webhook in the environment: the Teams message is skipped
TeamsSkipped ==
  /\ pc = "teams"
  /\ env.webhook = ""
  /\ teams' = "skipped"
  /\ pc' = "finish"
  /\ UNCHANGED <<diffVars, classVars, extractVars, windowVars, alertVars, guardVars, fetchVars, fileVars, variant, env, localVars,
                 processExitCode, attempted, failed, caught, classified, writes,
                 consoleSent, startFiles, permChecks, baselineRead, updateCalled, aiCall>>

\* a webhook is set: sendTeamsMessage inside try/catch
TeamsSend(allowed, responseOk) ==
  /\ pc = "teams"
  /\ env.webhook # ""
  /\ LET result == IF variant = "hardened"
                   THEN sendTeamsMessage(env.webhook, allowed, responseOk)
                   ELSE legacySendTeamsMessage(env.webhook, responseOk)
     IN /\ teams' = result.outcome
        /\ pc' = AfterTeams(result.threw)
  /\ UNCHANGED <<diffVars, classVars, extractVars, windowVars, alertVars, guardVars, fetchVars, fileVars, variant, env, localVars,
                 processExitCode, attempted, failed, caught, classified, writes,
                 consoleSent, startFiles, permChecks, baselineRead, updateCalled, aiCall>>

\* hardened: process.exitCode = exitCode; legacy main just returns
Finish ==
  /\ pc = "finish"
  /\ processExitCode' = IF variant = "hardened" THEN exitCode ELSE processExitCode
  /\ pc' = "done"
  /\ UNCHANGED <<diffVars, classVars, extractVars, windowVars, alertVars, guardVars, fetchVars, fileVars, variant, env, localVars,
                 histVars>>

\* the catch block of main (hardened), the handler of main().catch (legacy)
Catch ==
  /\ pc = "catch"
  /\ processExitCode' = 1
  /\ caught' = TRUE
  /\ pc' = "done"
  /\ UNCHANGED <<diffVars, classVars, extractVars, windowVars, alertVars, guardVars, fetchVars, fileVars, variant, env, localVars,
                 attempted, failed, classified, writes, consoleSent, obsVars>>

\* the process exits; the files stay
EndRun ==
  /\ pc = "done"
  /\ pc' = "idle"
  /\ variant' = "hardened"
  /\ env' = DefaultEnv
  /\ previous' = <<>>
  /\ current' = <<>>
  /\ perTargetDiff' = <<>>
  /\ idx' = 0
  /\ classification' = NoClassification
  /\ aiSummary' = NoSummary
  /\ shouldBlock' = FALSE
  /\ exitCode' = 0
  /\ reportKind' = "none"
  /\ processExitCode' = 0
  /\ attempted' = <<>>
  /\ failed' = {}
  /\ caught' = FALSE
  /\ classified' = FALSE
  /\ writes' = 0
  /\ consoleSent' = FALSE
  /\ startFiles' = Absent
  /\ permChecks' = 0
  /\ baselineRead' = FALSE
  /\ updateCalled' = FALSE
  /\ aiCall' = NoCall
  /\ teams' = "none"
  /\ UNCHANGED <<diffVars, classVars, extractVars, windowVars, alertVars, guardVars, fetchVars, fileVars>>

Next ==
  \/ \E v \in {"hardened", "legacy"}, e \in Envs : StartRun(v, e)
  \/ Preflight
  \/ Load
  \/ \E body \in RestBodies \cup IntrospectionBodies : FetchOk(body)
  \/ \E reason \in {"transport", "status", "parse"} : FetchFail(reason)
  \/ AnalyzeStable
  \/ ClassifyDrift
  \/ \E cfg \in AiConfigs, response \in GatewayResponses : Summarize(cfg, response)
  \/ UpdateRejected
  \/ \E left \in {"untouched", "truncated"} : UpdateWriteFails(left)
  \/ UpdateSnapshot
  \/ LegacyWrite
  \/ LegacyReport
  \/ Notify
  \/ TeamsSkipped
  \/ \E allowed \in BOOLEAN, responseOk \in BOOLEAN : TeamsSend(allowed, responseOk)
  \/ Finish
  \/ Catch
  \/ EndRun

Spec == Init /\ [][Next]_vars

(* ----------------------------------------------------------------------- *)
(* Properties of the drift check run (Spec)                                *)
(* ----------------------------------------------------------------------- *)

DiffIds(diff) == { diff[i].id : i \in 1..Len(diff) }

\* C1: a finished hardened run has exit code 1 exactly when shouldBlock was
\* true or an exception reached main's catch block, and 0 otherwise; so a
\* completed run without drift, or with drift that does not block, exits 0.
C1_ExitCode ==
  (pc = "done" /\ variant = "hardened") =>
    /\ processExitCode = (IF shouldBlock \/ caught THEN 1 ELSE 0)
    /\ (~caught /\ reportKind = "stable") => processExitCode = 0
    /\ (~caught /\ reportKind = "drift" /\ ~shouldBlock) => processExitCode = 0

\* drift classified minor under the default gate: reported, exit code 0
C1_Witness ==
  /\ pc = "done"
  /\ variant = "hardened"
  /\ reportKind = "drift"
  /\ classification.severity = "minor"
  /\ ~shouldBlock
  /\ ~caught
  /\ processExitCode = 0

\* C9: a target whose fetch fails has no entry in current nor in
\* perTargetDiff, and the loop goes on: the targets fetched are always the
\* first idx-1 of the list, and once the loop is left after a failure every
\* target of the list has been fetched.
C9_FailureIsolated ==
  /\ \A id \in failed : ~Has(current, id) /\ id \notin DiffIds(perTargetDiff)
  /\ pc \in {"loop", "summarize", "update", "notify", "teams", "legacyReport",
            "finish", "catch", "done"} /\ idx > 0
       => attempted = SubSeq(TargetIds, 1, idx - 1)
  /\ (failed # {} /\ pc # "loop") => attempted = TargetIds

\* the first target failed, the second was still fetched and recorded
C9_Witness ==
  /\ pc = "done"
  /\ ~caught
  /\ failed = {TargetIds[1]}
  /\ attempted = TargetIds
  /\ Has(current, TargetIds[2])
  /\ TargetIds[2] \in DiffIds(perTargetDiff)

\* C10: in a run that wrote the baseline, every target that failed in this
\* run and had an entry in the loaded baseline keeps that entry in the file.
C10_UnreachableKept ==
  writes > 0 =>
    \A id \in failed :
      Has(previous, id) =>
        /\ Has(snapshotFile.content, id)
        /\ GetOr(snapshotFile.content, id, <<>>) = GetOr(previous, id, <<>>)

\* the two files as they are now
Files == [snapshot |-> snapshotFile, prBody |-> prBodyFile]

\* nothing of the run has happened beyond the permission check
NothingDone ==
  /\ attempted = <<>>
  /\ ~baselineRead
  /\ ~classified
  /\ ~updateCalled
  /\ writes = 0
  /\ Files = startFiles

\* C11: the hardened run calls the run-permission check exactly once and
\* before anything else; with KILL_SWITCH=true it goes from the check straight
\* to its end: no target fetched, the baseline neither read nor written, no
\* classification.
C11_PreflightFirst ==
  (variant = "hardened" /\ pc # "idle") =>
    /\ permChecks = (IF pc = "preflight" THEN 0 ELSE 1)
    /\ permChecks = 0 => NothingDone
    /\ env.kill = "true" => (pc \in {"preflight", "catch", "done"} /\ NothingDone)

\* the kill switch set while a baseline is on disk
C11_Witness ==
  /\ variant = "hardened"
  /\ env.kill = "true"
  /\ pc = "done"
  /\ permChecks = 1
  /\ startFiles.snapshot.exists
  /\ attempted = <<>>
  /\ ~baselineRead
  /\ Files = startFiles

\* C12: a hardened run stopped by the run-permission check ends 'skipped':
\* not with exit code 1 and not through the fatal-error handler.
C12_KillSwitchSkipped ==
  (variant = "hardened" /\ env.kill = "true" /\ pc = "done") =>
    (processExitCode # 1 /\ ~caught)

\* C13: with SNAPSHOT_UPDATE_MODE other than PR_ONLY, a called
\* updateSnapshotsPROnly leaves both files as the run found them and the run
\* ends with exit code 1.
C13_ModeRefused ==
  (variant = "hardened" /\ UpdateMode(env.mode) # "PR_ONLY" /\ updateCalled) =>
    /\ Files = startFiles
    /\ writes = 0
    /\ pc \in {"catch", "done"}
    /\ pc = "done" => (processExitCode = 1 /\ caught)

\* a minor drift under the default gate, refused with DIRECT
C13_Witness ==
  /\ variant = "hardened"
  /\ env.mode = "DIRECT"
  /\ env.gate = ""
  /\ updateCalled
  /\ classification.severity = "minor"
  /\ startFiles.snapshot.exists
  /\ Files = startFiles
  /\ pc = "done"
  /\ processExitCode = 1

\* C14: when the snapshot write fails inside updateSnapshotsPROnly (the mode
\* was accepted, the update was called, no write completed) the run goes to
\* the catch block of main and ends with exit code 1, and the PR-body file
\* is as the run found it.
C14_WriteFailureFatal ==
  (variant = "hardened" /\ UpdateMode(env.mode) = "PR_ONLY" /\ updateCalled /\ writes = 0) =>
    /\ pc \in {"catch", "done"}
    /\ prBodyFile = startFiles.prBody
    /\ pc = "done" => (processExitCode = 1 /\ caught)

\* a minor drift that would not block, the write left the file truncated
C14_Witness ==
  /\ variant = "hardened"
  /\ UpdateMode(env.mode) = "PR_ONLY"
  /\ env.gate = ""
  /\ updateCalled
  /\ writes = 0
  /\ classification.severity = "minor"
  /\ snapshotFile = Truncated
  /\ ~prBodyFile.exists
  /\ pc = "done"
  /\ processExitCode = 1

\* C15: a hardened run that found no baseline file never classifies and
\* never prepares a drift report, whatever the targets returned.
C15_FirstRunStable ==
  (variant = "hardened" /\ pc # "idle" /\ ~startFiles.snapshot.exists) =>
    (~classified /\ reportKind # "drift")

\* C16: the hardened run writes the snapshot only with a non-empty
\* perTargetDiff; a run whose loop found no difference leaves the snapshot
\* file and the PR-body file as it found them.
C16_WriteOnlyOnDiff ==
  (variant = "hardened" /\ pc # "idle") =>
    /\ writes > 0 => Len(perTargetDiff) > 0
    /\ Files # startFiles => Len(perTargetDiff) > 0
    /\ (pc \in {"notify", "teams", "finish", "done"} /\ Len(perTargetDiff) = 0)
         => (Files = startFiles /\ ~updateCalled)

\* every target answered and matched the baseline on disk
C16_Witness ==
  /\ variant = "hardened"
  /\ pc = "done"
  /\ attempted = TargetIds
  /\ failed = {}
  /\ perTargetDiff = <<>>
  /\ reportKind = "stable"
  /\ startFiles.snapshot.exists
  /\ startFiles.prBody.exists
  /\ Files = startFiles

\* C17: a legacy run that left the target loop has overwritten the snapshot
\* file with `current`, diff or no diff, without classifying; when every
\* target failed the file holds the empty mapping.
C17_LegacyAlwaysWrites ==
  (variant = "legacy" /\ pc \in {"legacyReport", "notify", "teams", "finish", "done"}
     /\ ~caught) =>
    /\ snapshotFile = Written(current)
    /\ writes = 1
    /\ ~classified
    /\ failed = Range(TargetIds) => snapshotFile.content = <<>>

\* both targets failed while a non-empty baseline was on disk
C17_Witness ==
  /\ variant = "legacy"
  /\ pc = "done"
  /\ failed = Range(TargetIds)
  /\ Len(startFiles.snapshot.content) = 2
  /\ perTargetDiff = <<>>
  /\ snapshotFile = Written(<<>>)

\* C18: summarizeDiffWithAI returns, it never throws: its result has the
\* three fields and is the deterministic summary of the diff unless the AI
\* settings are complete and the gateway gave a valid, grounded answer; the
\* run always goes on from classification to the snapshot update, and a run
\* that reaches its end outside the catch block has sent its report.
C18_SummaryNeverThrows ==
  /\ aiCall.made =>
       /\ aiSummary \in {generateDeterministicSummary(perTargetDiff), Validated}
       /\ Len(aiSummary.summary) > 0
       /\ (~aiCall.configured \/ aiCall.response # GoodResponse)
            => aiSummary = generateDeterministicSummary(perTargetDiff)
       /\ pc = "update" \/ updateCalled
  /\ (classified /\ pc # "summarize") => aiCall.made
  /\ (classified /\ pc = "done" /\ ~caught) => (consoleSent /\ writes = 1)

\* the gateway call threw; the run still updated and reported
C18_Witness ==
  /\ pc = "done"
  /\ aiCall.made
  /\ aiCall.configured
  /\ aiCall.response.throws
  /\ Len(perTargetDiff) = 2
  /\ aiSummary = generateDeterministicSummary(perTargetDiff)
  /\ writes = 1
  /\ consoleSent
  /\ ~caught

\* C19: a run past the emit step has sent the console report; the Teams
\* message is attempted exactly when a webhook is set; a failed or
\* rate-limited Teams message leaves the run on its way to a normal end,
\* with the exit code the severity gate decided.
C19_OptionalChannels ==
  /\ (pc \in {"teams", "finish"} \/ (pc = "done" /\ ~caught)) => consoleSent
  /\ (pc = "finish" \/ (pc = "done" /\ ~caught)) =>
       /\ teams # "none"
       /\ teams = "skipped" <=> env.webhook = ""
  /\ teams \in {"failed", "rate_limited"} =>
       /\ env.webhook # ""
       /\ pc \in {"finish", "done"}
       /\ ~caught
       /\ (pc = "done" /\ variant = "hardened")
            => processExitCode = (IF shouldBlock THEN 1 ELSE 0)

\* a non-blocking drift whose Teams message failed: exit code 0
C19_Witness ==
  /\ variant = "hardened"
  /\ pc = "done"
  /\ reportKind = "drift"
  /\ teams = "failed"
  /\ consoleSent
  /\ ~shouldBlock
  /\ processExitCode = 0

\* C24: fetch failures alone never block: once a run in which at least one
\* target failed has left the loop with an empty perTargetDiff, it goes on
\* to the report without classifying, shouldBlock stays false, nothing
\* reaches main's catch block and the process ends with exit code 0.
C24_FailuresNeverBlock ==
  (failed # {} /\ pc # "loop" /\ Len(perTargetDiff) = 0) =>
    /\ ~classified
    /\ classification = NoClassification
    /\ ~shouldBlock
    /\ ~caught
    /\ exitCode = 0
    /\ pc \in {"notify", "teams", "legacyReport", "finish", "done"}
    /\ pc = "done" => processExitCode = 0

\* a hardened run over an existing baseline in which every target failed
C24_Witness ==
  /\ variant = "hardened"
  /\ pc = "done"
  /\ startFiles.snapshot.exists
  /\ attempted = TargetIds
  /\ failed = { TargetIds[i] : i \in 1..Len(TargetIds) }
  /\ perTargetDiff = <<>>
  /\ reportKind = "stable"
  /\ processExitCode = 0

\* C31: within a run the snapshot file is written at most once and never
\* before the loop over the targets has ended: up to the end of the loop
\* both files are as the process found them and nothing was written, while
\* current and perTargetDiff hold what was fetched so far.
C31_WriteOnceAfterLoop ==
  /\ writes <= 1
  /\ pc \in {"preflight", "load", "loop"} => (writes = 0 /\ Files = startFiles)
  /\ pc = "loop" =>
       /\ ObjectKeys(current) = SelectSeq(attempted, LAMBDA id : id \notin failed)
       /\ DiffIds(perTargetDiff) \subseteq Range(ObjectKeys(current))
  /\ writes = 1 =>
       /\ snapshotFile = Written(current)
       /\ attempted = TargetIds

\* both targets were fetched with drift and the baseline was replaced once
C31_Witness ==
  /\ pc = "done"
  /\ writes = 1
  /\ failed = {}
  /\ Len(perTargetDiff) = 2
  /\ startFiles.snapshot.exists
  /\ snapshotFile # startFiles.snapshot
  /\ snapshotFile.content = current

\* C35: whenever updateSnapshotsPROnly returns, the snapshot file holds the
\* complete new mapping, whether or not the classification blocks; the flag
\* reaches only the caller's exit code.
C35_BlockingStillWrites ==
  [][(pc = "update" /\ pc' = "notify") =>
       /\ snapshotFile' = Written(current)
       /\ writes' = writes + 1
       /\ shouldBlock' = (classification.severity = "major"
                            \/ classification.severity = SeverityGate(env.gate))
       /\ exitCode' = (IF shouldBlock' THEN 1 ELSE 0)
       /\ current' = current]_vars

\* a major classification: the run ends with exit code 1 and the baseline
\* that existed before the run has been replaced by the new mapping
C35_Witness ==
  /\ pc = "done"
  /\ variant = "hardened"
  /\ classification.severity = "major"
  /\ shouldBlock
  /\ processExitCode = 1
  /\ startFiles.snapshot.exists
  /\ startFiles.snapshot.content # current
  /\ snapshotFile = Written(current)

\* the mapping holds a value that is, or lists, an object stored as it came
HoldsRaw(snapshot) ==
  \E i \in 1..Len(snapshot) : \E j \in 1..Len(snapshot[i].v) :
    \/ snapshot[i].v[j].v = RawObject
    \/ ObjectItem \in Range(snapshot[i].v[j].v.items)

\* a hardened run that fetched every target and obtained, for each, the
\* signature the snapshot file held when the run began
SameAsBaseline ==
  /\ variant = "hardened"
  /\ pc \in {"notify", "catch", "done", "summarize", "update"}
  /\ failed = {}
  /\ attempted = TargetIds
  /\ startFiles.snapshot = Written(current)

NoDriftSeen ==
  /\ perTargetDiff = <<>>
  /\ ~classified
  /\ writes = 0
  /\ snapshotFile = startFiles.snapshot
  /\ exitCode = 0
  /\ pc = "done" => processExitCode = 0

\* C36: a hardened run that fetches every target and obtains the signatures
\* the previous run wrote detects no drift, writes nothing and ends with
\* exit code 0.
C36_Converges == SameAsBaseline => NoDriftSeen

\* the same, for baselines in which every value is a kind tag or a list of
\* tokens
ConvergesOnSignatures == (SameAsBaseline /\ ~HoldsRaw(current)) => NoDriftSeen

\* the token of a field as diffSchemas reports it: '<Type>.<field>:<T>',
\* followed by '[DEPRECATED]' when the field is deprecated
DiffToken(type, field, deprecated) ==
  type.name \o <<".">> \o field.name \o <<":">> \o FieldType(field)
    \o (IF deprecated THEN <<"[DEPRECATED]">> ELSE <<>>)

GraphQLTargetIds ==
  { Targets[i].id : i \in { j \in 1..Len(Targets) :
                              isGraphQLTarget(Targets[j].url, Targets[j].body) } }

\* the changes of one deprecation flag among the introspection results in
\* use: the signatures before and after, and the field's two tokens
FlagTurns ==
  UNION { UNION { { [prev |-> extractGraphQLSchema(b.types),
                     curr |-> extractGraphQLSchema(
                                [b.types EXCEPT ![ti].fields[fi].isDeprecated = ~@]),
                     added |-> DiffToken(b.types[ti], b.types[ti].fields[fi],
                                         ~b.types[ti].fields[fi].isDeprecated),
                     removed |-> DiffToken(b.types[ti], b.types[ti].fields[fi],
                                           b.types[ti].fields[fi].isDeprecated)]
                    : fi \in 1..Len(b.types[ti].fields) }
                  : ti \in { j \in 1..Len(b.types) : IsUserType(b.types[j]) } }
          : b \in { x \in IntrospectionBodies : x.hasSchema } }

\* C38: when the baseline of a GraphQL target was extracted from some types
\* and the current signature from the same types with the deprecation flag
\* of one field turned, the target's diff is exactly one added and one
\* removed token for that field, with the new and the old flag, and the run
\* classifies the drift as major.
C38_FlagChangeIsMajor ==
  (variant = "hardened" /\ previous # <<>> /\ current # <<>>) =>
  \A id \in GraphQLTargetIds, turn \in FlagTurns :
    (/\ Has(previous, id) /\ Has(current, id)
     /\ GetOr(previous, id, <<>>) = turn.prev
     /\ GetOr(current, id, <<>>) = turn.curr)
    => /\ \E k \in 1..Len(perTargetDiff) :
            /\ perTargetDiff[k].id = id
            /\ perTargetDiff[k].added = <<turn.added>>
            /\ perTargetDiff[k].removed = <<turn.removed>>
       /\ pc # "loop" => (classified /\ classification.severity = "major")

\* Character.name became deprecated and nothing else changed anywhere: the
\* run ended with a major classification and exit code 1
C38_Witness ==
  /\ variant = "hardened"
  /\ pc = "done"
  /\ ~caught
  /\ perTargetDiff =
       << [id |-> <<"rick_morty_graphql">>,
           added |-> << <<"Character", ".", "name", ":", "String", "[DEPRECATED]">> >>,
           removed |-> << <<"Character", ".", "name", ":", "String">> >>] >>
  /\ classification.severity = "major"
  /\ processExitCode = 1

(* ----------------------------------------------------------------------- *)
(* extractGraphQLSchema on bounded introspection payloads                  *)
(* ----------------------------------------------------------------------- *)

MaxTypes == 2

StatusField ==
  [name |-> <<"status">>, isDeprecated |-> FALSE,
   type |-> [name |-> <<"Int">>, kind |-> "SCALAR", ofTypeName |-> <<>>]]

Type(kind, name, fields) == [kind |-> kind, name |-> name, fields |-> fields]

\* types an introspection result may list: reserved names, root operation
\* types, kinds other than OBJECT, an OBJECT without fields, and names that
\* merely resemble the excluded ones
TypePool ==
  { Type("OBJECT", <<"__", "Type">>, <<NameField(FALSE)>>),
    Type("OBJECT", <<"Query">>, <<IdField>>),
    Type("OBJECT", <<"Mutation">>, <<IdField>>),
    Type("OBJECT", <<"Subscription">>, <<IdField>>),
    Type("OBJECT", <<"Character">>, <<NameField(TRUE), IdField>>),
    Type("OBJECT", <<"Episode">>, <<StatusField, NameField(FALSE), IdField>>),
    Type("OBJECT", <<"Query", "Result">>, <<IdField>>),
    Type("OBJECT", <<"_", "Service">>, <<NameField(FALSE)>>),
    Type("OBJECT", <<"Empty">>, <<>>),
    Type("INTERFACE", <<"Node">>, <<IdField>>),
    Type("SCALAR", <<"String">>, <<>>) }

TypeLists == UNION { [1..n -> TypePool] : n \in 0..MaxTypes }

ExtractInit ==
  /\ xPc = "input"
  /\ xTypes \in TypeLists
  /\ xRes = <<>>
  /\ WindowIdle
  /\ AlertIdle
  /\ GuardIdle
  /\ FetchIdle
  /\ DiffIdle
  /\ ClassIdle
  /\ NoFiles
  /\ RunIdle

CallExtract ==
  /\ xPc = "input"
  /\ xRes' = extractGraphQLSchema(xTypes)
  /\ xPc' = "done"
  /\ UNCHANGED <<xTypes, windowVars, alertVars, guardVars, fetchVars, diffVars, classVars, fileVars, runVars>>

ExtractNext == CallExtract

SpecExtract == ExtractInit /\ [][ExtractNext]_vars

\* C20: whatever the payload lists, no key of the extracted signature starts
\* with "__", none is Query, Mutation or Subscription, and every key is the
\* name of a listed type of kind OBJECT.
C20_ExtractExcludes ==
  xPc = "done" =>
    \A i \in 1..Len(xRes) :
      /\ ~StartsWith(xRes[i].k, <<"__">>)
      /\ xRes[i].k \notin { <<"Query">>, <<"Mutation">>, <<"Subscription">> }
      /\ \E j \in 1..Len(xTypes) : xTypes[j].name = xRes[i].k /\ xTypes[j].kind = "OBJECT"
      /\ \A j \in 1..Len(xTypes) : xTypes[j].name = xRes[i].k => xTypes[j].kind = "OBJECT"

\* a root type next to a user type: only the user type is kept
C20_Witness ==
  /\ xPc = "done"
  /\ Len(xTypes) = 2
  /\ xTypes[1].name = <<"Mutation">>
  /\ xTypes[2].name = <<"Character">>
  /\ ObjectKeys(xRes) = << <<"Character">> >>

\* every order of the elements of a list
Orders(list) ==
  { [i \in 1..Len(list) |-> list[p[i]]] : p \in Permutations(1..Len(list)) }

\* the payloads listing the same types, each with the same fields, in any
\* order of the types and of the fields within a type
Reorderings(types) ==
  UNION { { q \in [1..Len(p) -> UNION { {[p[i] EXCEPT !.fields = f] : f \in Orders(p[i].fields)}
                                       : i \in 1..Len(p) }] :
              \A i \in 1..Len(p) : q[i].name = p[i].name /\ q[i].kind = p[i].kind
                                   /\ q[i].fields \in Orders(p[i].fields) }
          : p \in Orders(types) }

\* equality of two records as mappings: the same keys with the same values
SameRecord(a, b) ==
  /\ Range(ObjectKeys(a)) = Range(ObjectKeys(b))
  /\ Len(a) = Len(b)
  /\ \A k \in Range(ObjectKeys(a)) : Get(a, k) = Get(b, k)

\* '<fieldName>:<type>' with '[DEPRECATED]' appended for a deprecated field
TokenOf(field) ==
  field.name \o <<":">> \o FieldType(field)
    \o (IF field.isDeprecated THEN <<"[DEPRECATED]">> ELSE <<>>)

EndsWith(s, suf) ==
  Len(s) >= Len(suf) /\ SubSeq(s, Len(s) - Len(suf) + 1, Len(s)) = suf

\* C34: listing the same types and fields in another order gives an equal
\* signature (the same type names with the same token lists) and no
\* difference under diffSchemas; each token list is in ascending order; the
\* tokens of a type are '<fieldName>:<type>' of its fields, ending in
\* '[DEPRECATED]' exactly for the deprecated ones.
C34_OrderInsensitive ==
  xPc = "done" =>
    /\ \A other \in Reorderings(xTypes) :
         /\ SameRecord(extractGraphQLSchema(other), xRes)
         /\ diffSchemas(extractGraphQLSchema(other), xRes) = EmptyDiff
         /\ diffSchemas(xRes, extractGraphQLSchema(other)) = EmptyDiff
    /\ \A i \in 1..Len(xRes) :
         LET items == xRes[i].v.items
             type == CHOOSE t \in Range(xTypes) : t.name = xRes[i].k
         IN /\ xRes[i].v.isArr
            /\ \A j \in 1..Len(items) - 1 : ~StrLess(items[j + 1], items[j])
            /\ Len(items) = Len(type.fields)
            /\ \A f \in Range(type.fields) :
                 /\ TokenOf(f) \in Range(items)
                 /\ EndsWith(TokenOf(f), DEPRECATED) <=> f.isDeprecated
            /\ \A j \in 1..Len(items) : items[j] \in { TokenOf(f) : f \in Range(type.fields) }

\* two user types, the fields of both listed out of order, one deprecated
C34_Witness ==
  /\ xPc = "done"
  /\ Len(xTypes) = 2
  /\ xTypes[1].name = <<"Episode">>
  /\ xTypes[2].name = <<"Character">>
  /\ xRes = << [k |-> <<"Episode">>,
                v |-> List(<< <<"id", ":", "ID">>, <<"name", ":", "String">>,
                              <<"status", ":", "Int">> >>)],
               [k |-> <<"Character">>,
                v |-> List(<< <<"id", ":", "ID">>,
                              <<"name", ":", "String", "[DEPRECATED]">> >>)] >>

(* ----------------------------------------------------------------------- *)
(* fetchJson and the body of the target loop, on drawn targets and         *)
(* responses (hardened CLI)                                                *)
(* ----------------------------------------------------------------------- *)

\* String.prototype.trim and toUpperCase on the method names in use
Trim(m) == IF m = " HEAD" THEN "HEAD" ELSE IF m = " head" THEN "head" ELSE m

ToUpperCase(m) ==
  IF m = "get" THEN "GET"
  ELSE IF m = "head" THEN "HEAD"
  ELSE IF m = "post" THEN "POST"
  ELSE IF m = "delete" THEN "DELETE"
  ELSE m

\* (process.env.SAFE_HTTP_METHODS || 'GET,HEAD,POST').split(',')
\*   .map(m => m.trim().toUpperCase()); safeEnv is the variable split at the
\* commas, <<>> when it is unset or empty
SAFE_METHODS(safeEnv) ==
  LET items == IF safeEnv = <<>> THEN <<"GET", "HEAD", "POST">> ELSE safeEnv
  IN { ToUpperCase(Trim(items[i])) : i \in 1..Len(items) }

\* (init?.method || 'GET').toUpperCase()
MethodOf(method) == ToUpperCase(IF method = "" THEN "GET" ELSE method)

\* the options fetchJson hands to guardedFetch
RequestOf(target) ==
  [sent |-> TRUE,
   method |-> MethodOf(target.method),
   body |-> IF isGraphQLTarget(target.url, target.body) /\ target.method = "POST"
              THEN "introspection"
            ELSE IF target.body.present /\ target.method \in {"POST", "PUT", "PATCH"}
              THEN "configured"
            ELSE "none"]

FetchThrew(request) ==
  [request |-> request, threw |-> TRUE, extracted |-> FALSE, schema |-> <<>>,
   json |-> Json("null", <<>>)]

\* fetchJson: guardedFetch refuses the method, or fails after its retries;
\* the status is not ok; res.json() throws; json.data of null throws; the
\* introspection result is extracted; anything else is returned as it came
fetchJson(target, safeEnv, response) ==
  LET request == RequestOf(target)
      isGraphQL == isGraphQLTarget(target.url, target.body)
  IN IF request.method \notin SAFE_METHODS(safeEnv) THEN FetchThrew(NoRequest)
     ELSE IF response.transport = "error" THEN FetchThrew(request)
     ELSE IF ~response.ok THEN FetchThrew(request)
     ELSE IF ~response.parses THEN FetchThrew(request)
     ELSE IF isGraphQL /\ response.body.json.t = "null" THEN FetchThrew(request)
     ELSE IF isGraphQL /\ response.body.hasSchema
       THEN [request |-> request, threw |-> FALSE, extracted |-> TRUE,
             schema |-> extractGraphQLSchema(response.body.types),
             json |-> Json("null", <<>>)]
     ELSE [request |-> request, threw |-> FALSE, extracted |-> FALSE, schema |-> <<>>,
           json |-> response.body.json]

\* try { json = await fetchJson(target);
\*       schema = isGraphQL ? json : buildLevel1Schema(json);
\*       current[target.id] = schema; ... } catch { log }
LoopBody(target, safeEnv, response) ==
  LET fetched == fetchJson(target, safeEnv, response)
      isGraphQL == isGraphQLTarget(target.url, target.body)
  IN IF fetched.threw
       THEN [request |-> fetched.request, failed |-> TRUE, kind |-> "none",
             schema |-> <<>>, raw |-> Json("null", <<>>)]
     ELSE IF ~isGraphQL
       THEN [request |-> fetched.request, failed |-> FALSE, kind |-> "level1",
             schema |-> buildLevel1Schema(fetched.json), raw |-> Json("null", <<>>)]
     ELSE IF fetched.extracted
       THEN [request |-> fetched.request, failed |-> FALSE, kind |-> "extracted",
             schema |-> fetched.schema, raw |-> Json("null", <<>>)]
     ELSE [request |-> fetched.request, failed |-> FALSE, kind |-> "raw",
           schema |-> <<>>, raw |-> fetched.json]

FetchMethods == {"GET", "POST", "PUT", "post"}

FetchUrls == { <<"https://api.example.com/", "users">>,
               <<"https://api.example.com/", "graphql">>,
               <<"https://api.example.com/", "GraphQL">> }

\* no body, a body with a query field, a body without one
FetchBodies == { [present |-> FALSE, hasQuery |-> FALSE],
                 [present |-> TRUE, hasQuery |-> TRUE],
                 [present |-> TRUE, hasQuery |-> FALSE] }

FetchTargets ==
  [id : {<<"api">>}, method : FetchMethods, url : FetchUrls, body : FetchBodies]

SafeEnvs == { <<>>, <<"get", " head">> }

\* parsed bodies: objects with nested members, arrays, primitives, an
\* introspection result, a GraphQL error body (json.data is an object, null
\* or missing in all of them)
NestedObject ==
  Json("object", << [k |-> <<"id">>, v |-> Json("number", <<>>)] >>)

JsonBodies ==
  { Body(Json("object", << [k |-> <<"a">>, v |-> Json("string", <<>>)],
                           [k |-> <<"b">>, v |-> NestedObject],
                           [k |-> <<"c">>, v |-> Json("array", << [k |-> <<>>, v |-> NestedObject] >>)],
                           [k |-> <<"d">>, v |-> Json("null", <<>>)],
                           [k |-> <<"e">>, v |-> Json("boolean", <<>>)] >>), FALSE, <<>>),
    Body(Json("array", << [k |-> <<>>, v |-> NestedObject],
                          [k |-> <<>>, v |-> Json("string", <<>>)] >>), FALSE, <<>>),
    Body(Json("array", <<>>), FALSE, <<>>),
    Body(Json("null", <<>>), FALSE, <<>>),
    Body(Json("string", <<>>), FALSE, <<>>),
    Body(Json("number", <<>>), FALSE, <<>>),
    Body(Json("boolean", <<>>), FALSE, <<>>),
    Body(Json("object", << [k |-> <<"errors">>, v |-> Json("array", << [k |-> <<>>, v |-> NestedObject] >>)] >>),
         FALSE, <<>>),
    Introspection(<<NameField(FALSE), IdField>>) }

NoBody == Body(Json("null", <<>>), FALSE, <<>>)

FetchResponses ==
  { [transport |-> "error", ok |-> FALSE, parses |-> FALSE, body |-> NoBody],
    [transport |-> "ok", ok |-> FALSE, parses |-> TRUE, body |-> NoBody],
    [transport |-> "ok", ok |-> TRUE, parses |-> FALSE, body |-> NoBody] }
  \cup { [transport |-> "ok", ok |-> TRUE, parses |-> TRUE, body |-> b] : b \in JsonBodies }

FetchInit ==
  /\ fPc = "input"
  /\ fTarget \in FetchTargets
  /\ fSafe \in SafeEnvs
  /\ fResponse \in FetchResponses
  /\ fOut = NoOutcome
  /\ DiffIdle
  /\ ClassIdle
  /\ ExtractIdle
  /\ WindowIdle
  /\ AlertIdle
  /\ GuardIdle
  /\ NoFiles
  /\ RunIdle

RunLoopBody ==
  /\ fPc = "input"
  /\ fOut' = LoopBody(fTarget, fSafe, fResponse)
  /\ fPc' = "done"
  /\ UNCHANGED <<fTarget, fSafe, fResponse, diffVars, classVars, extractVars, windowVars, alertVars, guardVars, fileVars,
                 runVars>>

FetchNext == RunLoopBody

SpecFetch == FetchInit /\ [][FetchNext]_vars

(* ----------------------------------------------------------------------- *)
(* Properties of fetchJson and the loop body (SpecFetch)                   *)
(* ----------------------------------------------------------------------- *)

\* C21: whenever a request goes out for a target that isGraphQLTarget
\* recognizes, it carries the introspection query, and what is stored for
\* the target is the signature extracted from the introspection result.
C21_IntrospectionAlways ==
  (fPc = "done" /\ isGraphQLTarget(fTarget.url, fTarget.body)) =>
    /\ fOut.request.sent => fOut.request.body = "introspection"
    /\ ~fOut.failed =>
         (fOut.kind = "extracted"
            /\ fOut.schema = extractGraphQLSchema(fResponse.body.types))

\* C22: a response that does not parse, or, for a GraphQL target, parses
\* without data.__schema, makes the target fail: nothing is stored for it.
C22_MalformedIsFailure ==
  fPc = "done" =>
    /\ (fOut.request.sent /\ fResponse.transport = "ok" /\ fResponse.ok
          /\ ~fResponse.parses) => fOut.failed
    /\ (fOut.request.sent /\ fResponse.transport = "ok" /\ fResponse.ok
          /\ fResponse.parses /\ isGraphQLTarget(fTarget.url, fTarget.body)
          /\ ~fResponse.body.hasSchema) => (fOut.failed /\ fOut.kind # "raw")

\* the tag the spec gives a top-level value
KindTag(value) ==
  IF value.t = "array" THEN "array"
  ELSE IF value.t = "null" THEN "null"
  ELSE value.t

\* C23: the level-1 signature stored for a REST target is empty when the
\* body is not a JSON object (null, string, number, boolean, array), and
\* otherwise has one entry per top-level key, in order, tagged by the kind
\* of the value, nested values left alone.
C23_Level1Shape ==
  (fPc = "done" /\ fOut.kind = "level1") =>
    LET json == fResponse.body.json
    IN IF json.t # "object" THEN fOut.schema = <<>>
       ELSE /\ Len(fOut.schema) = Len(json.entries)
            /\ \A i \in 1..Len(json.entries) :
                 /\ fOut.schema[i].k = json.entries[i].k
                 /\ fOut.schema[i].v = Scalar(KindTag(json.entries[i].v))

(* ----------------------------------------------------------------------- *)
(* guardedFetch: method allowlist, RateLimiter, ConcurrencyLimiter and the *)
(* retry loop, for concurrent calls in one process.  Time is counted in    *)
(* ticks of 100 ms and tokens in tenths of a token.                        *)
(* ----------------------------------------------------------------------- *)

MaxCalls == 3

MaxTime == 10

HTTP_RETRY_MAX == 2

\* HTTP_BACKOFF_MS || '300:2000', in ticks
BACKOFF_MIN == 3

BACKOFF_MAX == 20

Min(a, b) == IF a < b THEN a ELSE b

Pow2(n) == IF n = 0 THEN 1 ELSE IF n = 1 THEN 2 ELSE 4

\* Math.min(BACKOFF_MIN * 2^attempt, BACKOFF_MAX) plus a jitter that is never
\* negative: the shortest delay, the timer may fire at any later time
calculateBackoff(attempt) == Min(BACKOFF_MIN * Pow2(attempt), BACKOFF_MAX)

\* RateLimiter.refill: min(maxTokens, tokens + elapsed * refillRate)
Refill == Min(10 * gQps, tokens + (gNow - lastRefill) * gQps)

\* (1 - tokens) / refillRate seconds, rounded up to whole ticks
WaitTime(left) == ((10 - left) + gQps - 1) \div gQps

\* a call not yet made; acquired and released count its slots taken and
\* given back, lastError is the attempt whose error it holds (0: none)
NewCall ==
  [pc |-> "idle", method |-> "", attempt |-> 0, wakeAt |-> 0,
   acquired |-> 0, released |-> 0, lastError |-> 0]

\* the fetch attempts started within the last second, of which the log keeps
\* the latest MAX_QPS + 1
Started(log, t) ==
  LET all == Append(log, t)
  IN IF Len(all) > gQps + 1 THEN Tail(all) ELSE all

At(call, position) == [call EXCEPT !.pc = position, !.wakeAt = 0]

\* the call is given a slot: running++ is done by whoever grants it
Granted(call) == [At(call, "granted") EXCEPT !.acquired = @ + 1]

\* RateLimiter.acquire from its entry or from a wake-up of its loop: refill,
\* then take a token or sleep until one can have arrived
RateLimiterAcquire(i, call) ==
  /\ lastRefill' = gNow
  /\ IF Refill >= 10
       THEN /\ tokens' = Refill - 10
            /\ calls' = [calls EXCEPT ![i] = At(call, "haveToken")]
       ELSE /\ tokens' = Refill
            /\ calls' = [calls EXCEPT ![i] =
                           [call EXCEPT !.pc = "rateSleep",
                                        !.wakeAt = gNow + WaitTime(Refill)]]

\* fault variant: the slot goes to the caller that queued last
ReleaseMutLifo(i, call) ==
  LET ended == [call EXCEPT !.released = @ + 1]
      last == queue[Len(queue)]
  IN IF queue = <<>>
       THEN /\ running' = running - 1
            /\ queue' = queue
            /\ calls' = [calls EXCEPT ![i] = ended]
       ELSE /\ running' = running
            /\ queue' = SubSeq(queue, 1, Len(queue) - 1)
            /\ calls' = [calls EXCEPT ![i] = ended, ![last] = Granted(calls[last])]

\* ConcurrencyLimiter.release in the finally of call i, which ends as
\* `call`: running--, then the first queued resolver runs, which does
\* running++ and resumes its call
Release(i, call) ==
  LET ended == [call EXCEPT !.released = @ + 1]
  IN IF queue = <<>>
       THEN /\ running' = running - 1
            /\ queue' = queue
            /\ calls' = [calls EXCEPT ![i] = ended]
       ELSE /\ running' = running
            /\ queue' = Tail(queue)
            /\ calls' = [calls EXCEPT ![i] = ended,
                                      ![Head(queue)] = Granted(calls[Head(queue)])]

GuardOthers ==
  UNCHANGED <<diffVars, classVars, extractVars, windowVars, alertVars, fetchVars, fileVars, runVars,
              gSafe, gQps, gConc>>

\* fault variant: the allowlist is consulted after the rate limiter
StartMutLateCheck(i, method) ==
  /\ calls[i].pc = "idle"
  /\ \A j \in 1..(i - 1) : calls[j].pc # "idle"
  /\ LET call == [calls[i] EXCEPT !.method = MethodOf(method)]
     IN IF Refill >= 10 /\ call.method \notin SAFE_METHODS(gSafe)
          THEN /\ lastRefill' = gNow
               /\ tokens' = Refill - 10
               /\ calls' = [calls EXCEPT ![i] = At(call, "blocked")]
          ELSE RateLimiterAcquire(i, call)
  /\ UNCHANGED <<gNow, running, queue, recent>>
  /\ GuardOthers

\* guardedFetch is called: the method is checked against the allowlist,
\* then rateLimiter.acquire() runs up to its first await
Start(i, method) ==
  /\ calls[i].pc = "idle"
  /\ \A j \in 1..(i - 1) : calls[j].pc # "idle"
  /\ LET call == [calls[i] EXCEPT !.method = MethodOf(method)]
     IN IF call.method \notin SAFE_METHODS(gSafe)
          THEN /\ calls' = [calls EXCEPT ![i] = At(call, "blocked")]
               /\ UNCHANGED <<tokens, lastRefill>>
          ELSE RateLimiterAcquire(i, call)
  /\ UNCHANGED <<gNow, running, queue, recent>>
  /\ GuardOthers

\* the timer of the rate limiter's loop fires
RateWake(i) ==
  /\ calls[i].pc = "rateSleep"
  /\ gNow >= calls[i].wakeAt
  /\ RateLimiterAcquire(i, calls[i])
  /\ UNCHANGED <<gNow, running, queue, recent>>
  /\ GuardOthers

\* fault variant: a slot is handed out whatever the number running
ConcAcquireMutNoLimit(i) ==
  /\ calls[i].pc = "haveToken"
  /\ running' = running + 1
  /\ calls' = [calls EXCEPT ![i] = Granted(calls[i])]
  /\ UNCHANGED <<gNow, tokens, lastRefill, queue, recent>>
  /\ GuardOthers

\* concurrencyLimiter.acquire(): a free slot is taken at once, otherwise
\* the resolver is queued
ConcAcquire(i) ==
  /\ calls[i].pc = "haveToken"
  /\ IF running < gConc
       THEN /\ running' = running + 1
            /\ queue' = queue
            /\ calls' = [calls EXCEPT ![i] = Granted(calls[i])]
       ELSE /\ running' = running
            /\ queue' = Append(queue, i)
            /\ calls' = [calls EXCEPT ![i] = At(calls[i], "queued")]
  /\ UNCHANGED <<gNow, tokens, lastRefill, recent>>
  /\ GuardOthers

\* the call resumes with its slot and starts the first fetch
Attempt(i) ==
  /\ calls[i].pc = "granted"
  /\ calls' = [calls EXCEPT ![i] = At(calls[i], "fetching")]
  /\ recent' = Started(recent, gNow)
  /\ UNCHANGED <<gNow, tokens, lastRefill, running, queue>>
  /\ GuardOthers

\* the backoff timer fires and the loop starts the next fetch
Retry(i) ==
  /\ calls[i].pc = "backoff"
  /\ gNow >= calls[i].wakeAt
  /\ calls' = [calls EXCEPT ![i] = At(calls[i], "fetching")]
  /\ recent' = Started(recent, gNow)
  /\ UNCHANGED <<gNow, tokens, lastRefill, running, queue>>
  /\ GuardOthers

\* fetch resolves: the response is returned, finally releases the slot
Respond(i) ==
  /\ calls[i].pc = "fetching"
  /\ Release(i, At(calls[i], "returned"))
  /\ UNCHANGED <<gNow, tokens, lastRefill, recent>>
  /\ GuardOthers

\* fault variant: the last attempt is retried like the others
FailMutRetryForever(i) ==
  /\ calls[i].pc = "fetching"
  /\ calls' = [calls EXCEPT ![i] =
                 [calls[i] EXCEPT
                    !.pc = "backoff",
                    !.attempt = IF @ < HTTP_RETRY_MAX THEN @ + 1 ELSE @,
                    !.wakeAt = gNow + calculateBackoff(calls[i].attempt),
                    !.lastError = calls[i].attempt + 1]]
  /\ UNCHANGED <<running, queue>>
  /\ UNCHANGED <<gNow, tokens, lastRefill, recent>>
  /\ GuardOthers

\* fetch rejects (network error or timeout): back off and retry, or throw
\* after the last attempt, releasing the slot
Fail(i) ==
  /\ calls[i].pc = "fetching"
  /\ IF calls[i].attempt < HTTP_RETRY_MAX
       THEN /\ calls' = [calls EXCEPT ![i] =
                           [calls[i] EXCEPT
                              !.pc = "backoff",
                              !.attempt = @ + 1,
                              !.wakeAt = gNow + calculateBackoff(calls[i].attempt),
                              !.lastError = calls[i].attempt + 1]]
            /\ UNCHANGED <<running, queue>>
       ELSE Release(i, [At(calls[i], "failed") EXCEPT !.lastError = calls[i].attempt + 1])
  /\ UNCHANGED <<gNow, tokens, lastRefill, recent>>
  /\ GuardOthers

\* 100 ms pass; continuations that are ready run before any time passes
Tick ==
  /\ gNow < MaxTime
  /\ \A i \in DOMAIN calls : calls[i].pc \notin {"haveToken", "granted"}
  /\ gNow' = gNow + 1
  /\ recent' = SelectSeq(recent, LAMBDA t : t > gNow' - 10)
  /\ UNCHANGED <<tokens, lastRefill, running, queue, calls>>
  /\ GuardOthers

GuardMethods == {"GET", "POST", "DELETE"}

\* SAFE_HTTP_METHODS, MAX_QPS and MAX_CONCURRENCY: all unset (the defaults),
\* and a read-only allowlist with a larger bucket and a single slot
GuardEnvs ==
  { [safe |-> <<>>, qps |-> 1, conc |-> 2],
    [safe |-> <<"get", " head">>, qps |-> 2, conc |-> 1] }

\* the module is loaded: both limiters are constructed from the environment
\* the module is loaded and `n` calls are going to be made
GuardInitFor(n) ==
  /\ \E e \in GuardEnvs : gSafe = e.safe /\ gQps = e.qps /\ gConc = e.conc
  /\ gNow = 0
  /\ tokens = 10 * gQps
  /\ lastRefill = 0
  /\ running = 0
  /\ queue = <<>>
  /\ calls = [i \in 1..n |-> NewCall]
  /\ recent = <<>>
  /\ DiffIdle
  /\ ClassIdle
  /\ ExtractIdle
  /\ WindowIdle
  /\ AlertIdle
  /\ FetchIdle
  /\ NoFiles
  /\ RunIdle

GuardInit == GuardInitFor(MaxCalls)

GuardNext ==
  \/ \E i \in DOMAIN calls, method \in GuardMethods : Start(i, method)
  \/ \E i \in DOMAIN calls : RateWake(i)
  \/ \E i \in DOMAIN calls : ConcAcquire(i)
  \/ \E i \in DOMAIN calls : Attempt(i)
  \/ \E i \in DOMAIN calls : Retry(i)
  \/ \E i \in DOMAIN calls : Respond(i)
  \/ \E i \in DOMAIN calls : Fail(i)
  \/ Tick

SpecGuard == GuardInit /\ [][GuardNext]_vars

(* ----------------------------------------------------------------------- *)
(* Properties of guardedFetch (SpecGuard)                                  *)
(* ----------------------------------------------------------------------- *)

\* C25: a call whose method is not in the allowlist throws in the step that
\* starts it, and that step leaves the rate limiter (tokens, lastRefill), the
\* concurrency limiter (running, queue) and the started requests as they
\* were; the call does nothing afterwards.
C25_BlockedCostsNothing ==
  [][\A i \in 1..MaxCalls :
       /\ (calls[i].pc = "idle" /\ calls'[i].pc # "idle"
             /\ calls'[i].method \notin SAFE_METHODS(gSafe))
            => /\ calls'[i].pc = "blocked"
               /\ UNCHANGED <<tokens, lastRefill, running, queue, recent>>
       /\ calls[i].pc = "blocked" => calls'[i] = calls[i]]_vars

\* a DELETE was refused while the first call is in its request and a token
\* is still in the bucket
C25_Witness ==
  /\ calls # <<>>
  /\ calls[1].pc = "fetching"
  /\ calls[2].pc = "blocked"
  /\ calls[2].method = "DELETE"
  /\ gQps = 2
  /\ tokens = 10
  /\ running = 1
  /\ recent = <<0>>

\* C26: with SAFE_HTTP_METHODS unset every call with a method other than
\* GET and HEAD is blocked.
C26_DefaultGetHeadOnly ==
  \A i \in DOMAIN calls :
    (gSafe = <<>> /\ calls[i].pc # "idle" /\ calls[i].method \notin {"GET", "HEAD"})
      => calls[i].pc = "blocked"

Ended(call) == call.pc \in {"blocked", "returned", "failed"}

Holders == { i \in DOMAIN calls : calls[i].pc \in {"granted", "fetching", "backoff"} }

InQueue == { queue[k] : k \in 1..Len(queue) }

\* C27: the calls holding a slot (from the grant to the release, backoff
\* included) are never more than MAX_CONCURRENCY and are counted by
\* `running`; the other callers past the rate limiter sit in the queue, each
\* once, and only while every slot is taken.
C27_ConcurrencyCap ==
  /\ Cardinality(Holders) <= gConc
  /\ running = Cardinality(Holders)
  /\ InQueue = { i \in DOMAIN calls : calls[i].pc = "queued" }
  /\ Cardinality(InQueue) = Len(queue)
  /\ queue # <<>> => running = gConc

\* MAX_CONCURRENCY = 1: the first call is in its request, the second waits
C27_Witness ==
  /\ calls # <<>>
  /\ gConc = 1
  /\ calls[1].pc = "fetching"
  /\ calls[2].pc = "queued"
  /\ queue = <<2>>
  /\ running = 1

\* C28: the fetch attempts started within any one second, retries
\* included, are at most MAX_QPS.
C28_QpsCap == Len(recent) <= gQps

\* C37: a call holds a slot from its grant to its end and releases it
\* exactly once, at its end, whether it returns or throws; a call that was
\* blocked never held one.  Callers queue in the order of their arrival and
\* a release passes the slot to the first of the queue, leaving the others
\* queued.  When every call that was made has ended, no slot is taken and
\* nobody waits.
C37_ReleaseOnce ==
  /\ [](\A i \in 1..MaxCalls :
          /\ calls[i].pc \in {"returned", "failed"}
               => (calls[i].acquired = 1 /\ calls[i].released = 1)
          /\ calls[i].pc \in {"granted", "fetching", "backoff"}
               => (calls[i].acquired = 1 /\ calls[i].released = 0)
          /\ calls[i].pc \in {"idle", "blocked", "rateSleep", "haveToken", "queued"}
               => (calls[i].acquired = 0 /\ calls[i].released = 0))
  /\ []((\A i \in 1..MaxCalls : calls[i].pc = "idle" \/ Ended(calls[i]))
          => (running = 0 /\ queue = <<>>))
  /\ [][/\ \/ queue' = queue
            \/ (queue # <<>> /\ queue' = Tail(queue))
            \/ \E i \in 1..MaxCalls : (queue' = Append(queue, i) /\ calls[i].pc = "haveToken")
         /\ \A i \in 1..MaxCalls :
              (calls'[i].released # calls[i].released) =>
                /\ calls[i].pc = "fetching"
                /\ calls'[i].pc \in {"returned", "failed"}
                /\ IF queue = <<>>
                     THEN running' = running - 1 /\ queue' = queue
                     ELSE /\ running' = running
                          /\ queue' = Tail(queue)
                          /\ calls'[Head(queue)].pc = "granted"
                          /\ \A j \in InQueue \ {Head(queue)} : calls'[j] = calls[j]]_vars

\* one slot: the first call has returned, the second holds the slot and the
\* third is still queued
C37_Witness ==
  /\ calls # <<>>
  /\ gConc = 1
  /\ calls[1].pc = "returned"
  /\ calls[1].released = 1
  /\ calls[2].pc = "granted"
  /\ calls[2].acquired = 1
  /\ calls[3].pc = "queued"
  /\ queue = <<3>>
  /\ running = 1

\* two callers wait for the one slot
TwoWaiting == Len(queue) = 2

(* ----------------------------------------------------------------------- *)
(* Teams alerts over successive drift-check runs: the dedupe key, the      *)
(* rate-limit cache files and the webhook POST.  The clock counts ticks of *)
(* 10 minutes; durations are in milliseconds as in the code.               *)
(* ----------------------------------------------------------------------- *)

MaxClock == 4

TickMs(ticks) == ticks * 600000

\* parseInt on the digit strings in use
ParseInt(s) ==
  IF s = "1" THEN 1 ELSE IF s = "2" THEN 2 ELSE IF s = "10" THEN 10 ELSE 30

IsDigits(s) == s \in {"1", "2", "10", "30"}

\* process.env.TEAMS_RATE_LIMIT || '1/30m', as the pieces the pattern
\* (\d+)\/(\d+)([smh]) looks for
TEAMS_RATE_LIMIT(limitEnv) ==
  IF limitEnv = <<>> THEN <<"1", "/", "30", "m">> ELSE limitEnv

\* parseRateLimit: the window in milliseconds; the count before the slash is
\* matched and dropped, a string that does not match gives 30 minutes
parseRateLimit(rateLimitStr) ==
  IF /\ Len(rateLimitStr) = 4
     /\ IsDigits(rateLimitStr[1])
     /\ rateLimitStr[2] = "/"
     /\ IsDigits(rateLimitStr[3])
     /\ rateLimitStr[4] \in {"s", "m", "h"}
    THEN LET value == ParseInt(rateLimitStr[3])
         IN IF rateLimitStr[4] = "s" THEN value * 1000
            ELSE IF rateLimitStr[4] = "m" THEN value * 60 * 1000
            ELSE value * 60 * 60 * 1000
    ELSE 30 * 60 * 1000

\* fs.existsSync(cacheFile) is false
NoCacheFile == 0 - 1

\* checkRateLimit(dedupeKey) on teams_<dedupeKey>.txt: refused while the
\* time in the file is less than the window ago, otherwise the file is
\* written with the current time
checkRateLimit(dedupeKey) ==
  ~ (/\ tCache[dedupeKey] # NoCacheFile
     /\ TickMs(tClock - tCache[dedupeKey]) < parseRateLimit(TEAMS_RATE_LIMIT(tLimit)))

\* process.env.GITHUB_RUN_ID of a workflow run; "" outside GitHub Actions
GithubRunIds == {"", "1001", "1002"}

\* RUN_ID = randomUUID().slice(0, 8) of a process
RandomRunIds == {"3f2a9c1e"}

DedupeKeys == (GithubRunIds \ {""}) \cup RandomRunIds

Webhooks == {"", "https://teams.example/hook"}

RateLimitEnvs == { <<>>, <<"2", "/", "10", "m">>, <<"often">> }

AlertOthers ==
  UNCHANGED <<diffVars, classVars, extractVars, windowVars, guardVars, fetchVars, fileVars, runVars,
              tLimit>>

\* fault variant: a refused attempt stamps the file too
SendMutStampOnRefusal(webhookUrl, runId, random) ==
  /\ tPc = "idle"
  /\ tWebhook' = webhookUrl
  /\ LET key == IF runId # "" THEN runId ELSE random
     IN /\ tKey' = key
        /\ IF webhookUrl = ""
             THEN tPc' = "skipped" /\ tCache' = tCache
           ELSE IF ~checkRateLimit(key)
             THEN tPc' = "limited" /\ tCache' = [tCache EXCEPT ![key] = tClock]
           ELSE tPc' = "posting" /\ tCache' = [tCache EXCEPT ![key] = tClock]
  /\ UNCHANGED <<tClock, tPosts>>
  /\ AlertOthers

\* a drift-check process reaches its Teams step: sendTeamsMessage(webhookUrl,
\* ..., GITHUB_RUN_ID) up to the await of the POST
Send(webhookUrl, runId, random) ==
  /\ tPc = "idle"
  /\ tWebhook' = webhookUrl
  /\ LET key == IF runId # "" THEN runId ELSE random
     IN /\ tKey' = key
        /\ IF webhookUrl = ""
             THEN tPc' = "skipped" /\ tCache' = tCache
           ELSE IF ~checkRateLimit(key)
             THEN tPc' = "limited" /\ tCache' = tCache
           ELSE tPc' = "posting" /\ tCache' = [tCache EXCEPT ![key] = tClock]
  /\ UNCHANGED <<tClock, tPosts>>
  /\ AlertOthers

\* the webhook answers: response.ok, or a status that makes the call throw
PostResponds(ok) ==
  /\ tPc = "posting"
  /\ tPc' = IF ok THEN "sent" ELSE "failed"
  /\ tPosts' = IF ok THEN Append(tPosts, tClock) ELSE tPosts
  /\ UNCHANGED <<tWebhook, tKey, tClock, tCache>>
  /\ AlertOthers

\* the process ends; the next run is a new process
EndProcess ==
  /\ tPc \in {"skipped", "limited", "sent", "failed"}
  /\ tPc' = "idle"
  /\ tWebhook' = ""
  /\ tKey' = ""
  /\ UNCHANGED <<tClock, tCache, tPosts>>
  /\ AlertOthers

\* ten minutes pass, never while a POST is awaited (it is answered or fails
\* within seconds); messages older than the window leave the history
AlertTick ==
  /\ tClock < MaxClock
  /\ tPc # "posting"
  /\ tClock' = tClock + 1
  /\ tPosts' = SelectSeq(tPosts, LAMBDA t :
                 TickMs(tClock' - t) < parseRateLimit(TEAMS_RATE_LIMIT(tLimit)))
  /\ UNCHANGED <<tPc, tWebhook, tKey, tCache>>
  /\ AlertOthers

AlertInit ==
  /\ tPc = "idle"
  /\ tWebhook = ""
  /\ tKey = ""
  /\ tLimit \in RateLimitEnvs
  /\ tClock = 0
  /\ tCache = [k \in DedupeKeys |-> NoCacheFile]
  /\ tPosts = <<>>
  /\ DiffIdle
  /\ ClassIdle
  /\ ExtractIdle
  /\ WindowIdle
  /\ GuardIdle
  /\ FetchIdle
  /\ NoFiles
  /\ RunIdle

AlertNext ==
  \/ \E webhookUrl \in Webhooks, runId \in GithubRunIds, random \in RandomRunIds :
       Send(webhookUrl, runId, random)
  \/ \E ok \in BOOLEAN : PostResponds(ok)
  \/ EndProcess
  \/ AlertTick

SpecAlerts == AlertInit /\ [][AlertNext]_vars

(* ----------------------------------------------------------------------- *)
(* Properties of the Teams rate limit (SpecAlerts)                         *)
(* ----------------------------------------------------------------------- *)

\* C29: across successive runs at most one message is posted to the webhook
\* within any rate-limit window.
C29_OnePerWindow == Len(tPosts) <= 1

\* the time stored for the key is less than the window ago
InsideWindow(key) ==
  /\ tCache[key] # NoCacheFile
  /\ TickMs(tClock - tCache[key]) < parseRateLimit(TEAMS_RATE_LIMIT(tLimit))

\* C39: the stored time of a key changes only in the step that allows a
\* message for that key, which sets it to the current time before the POST
\* goes out; a refused attempt and the outcome of the POST leave every
\* stored time as it is; an attempt is allowed exactly when the key's stored
\* time is missing or at least the window ago, whether or not the POST
\* of the attempt that stored it succeeded.
C39_StampOnlyWhenAllowed ==
  /\ []((tPc = "posting" => tCache[tKey] = tClock)
          /\ (tPc \in {"sent", "failed"} =>
                (tCache[tKey] # NoCacheFile /\ tCache[tKey] <= tClock)))
  /\ [][(tCache' # tCache =>
            (/\ tPc = "idle"
             /\ tPc' = "posting"
             /\ tCache' = [tCache EXCEPT ![tKey'] = tClock]))
        /\ ((tPc = "idle" /\ tPc' = "posting") =>
              (~InsideWindow(tKey') /\ tCache'[tKey'] = tClock /\ tPosts' = tPosts))
        /\ ((tPc = "idle" /\ tPc' = "limited") =>
              (InsideWindow(tKey') /\ tCache' = tCache))
        /\ ((tPc = "idle" /\ tPc' \notin {"idle", "skipped"}) =>
              (tPc' = "limited" <=> InsideWindow(tKey')))
        /\ (tPc = "posting" => tCache' = tCache)]_vars

\* an attempt is refused some time after the only attempt allowed for its
\* key, whose POST failed: no message went out, the stored time is the
\* earlier attempt's
C39_Witness ==
  /\ tPc = "limited"
  /\ tPosts = <<>>
  /\ tCache[tKey] # NoCacheFile
  /\ tCache[tKey] < tClock
  /\ \A k \in DOMAIN tCache : k # tKey => tCache[k] = NoCacheFile

(* ----------------------------------------------------------------------- *)
(* Kill switch and execution window: canRunNow on a drawn environment and  *)
(* time.  A cron expression is the sequence of its fields (the string      *)
(* split at white space); the time is its minute and hour.                 *)
(* ----------------------------------------------------------------------- *)

\* process.env.WINDOW_CRON || '*/30 * * * *'
WINDOW_CRON(cronEnv) ==
  IF cronEnv = <<>> THEN <<"*/30", "*", "*", "*", "*">> ELSE cronEnv

\* minute.startsWith('*/') on the fields in use
StartsWithStep(field) == field = "*/30"

\* isWithinCronWindow: a wrong number of fields, all wildcards, a step in
\* the minute field, and every other expression are all allowed
isWithinCronWindow(cronExpr, now) ==
  IF Len(cronExpr) # 5 THEN TRUE
  ELSE IF \A i \in 1..5 : cronExpr[i] = "*" THEN TRUE
  ELSE IF StartsWithStep(cronExpr[1]) THEN TRUE
  ELSE TRUE

\* canRunNow with the window in view: the kill switch first, then the
\* window; canRunNow(killEnv) of the run is its `allowed` for any time
canRunNowAt(killEnv, cronEnv, now) ==
  IF killEnv = "true"
    THEN [allowed |-> FALSE, reason |-> "kill switch"]
  ELSE IF ~isWithinCronWindow(WINDOW_CRON(cronEnv), now)
    THEN [allowed |-> FALSE, reason |-> "outside window"]
  ELSE [allowed |-> TRUE, reason |-> "none"]

\* what a cron field means for a value of the clock
FieldMatches(field, value) ==
  IF field = "*" THEN TRUE
  ELSE IF field = "*/30" THEN value % 30 = 0
  ELSE IF field = "0" THEN value = 0
  ELSE IF field = "9" THEN value = 9
  ELSE FALSE

\* the time lies in the window a five-field expression describes (the day,
\* month and weekday fields in use are wildcards)
InWindow(cronExpr, now) ==
  /\ FieldMatches(cronExpr[1], now.minute)
  /\ FieldMatches(cronExpr[2], now.hour)
  /\ \A i \in 3..5 : cronExpr[i] = "*"

KillEnvs == {"", "true", "false", "1"}

\* unset, every minute, midnight, 9:00, and an expression of four fields
CronEnvs ==
  { <<>>,
    <<"*", "*", "*", "*", "*">>,
    <<"0", "0", "*", "*", "*">>,
    <<"0", "9", "*", "*", "*">>,
    <<"0", "0", "*", "*">> }

Times == [minute : {0, 15, 30}, hour : {0, 9}]

WindowInit ==
  /\ wPc = "start"
  /\ wKill \in KillEnvs
  /\ wCron \in CronEnvs
  /\ wNow \in Times
  /\ wRes = [allowed |-> TRUE, reason |-> "none"]
  /\ DiffIdle
  /\ ClassIdle
  /\ ExtractIdle
  /\ AlertIdle
  /\ GuardIdle
  /\ FetchIdle
  /\ NoFiles
  /\ RunIdle

\* assertCanRun at the start of main: it throws when canRunNow disallows
AssertCanRun ==
  /\ wPc = "start"
  /\ wRes' = canRunNowAt(wKill, wCron, wNow)
  /\ wPc' = IF wRes'.allowed THEN "running" ELSE "aborted"
  /\ UNCHANGED <<diffVars, classVars, extractVars, alertVars, guardVars, fetchVars, fileVars, runVars,
                 wKill, wCron, wNow>>

WindowNext == AssertCanRun

SpecWindow == WindowInit /\ [][WindowNext]_vars

(* ----------------------------------------------------------------------- *)
(* Properties of the execution window (SpecWindow)                         *)
(* ----------------------------------------------------------------------- *)

\* C30: with the kill switch off and the time outside the window that
\* WINDOW_CRON describes, canRunNow answers allowed = false with a reason
\* and the drift check aborts.
C30_OutsideWindowRefused ==
  (/\ wPc \in {"running", "aborted"}
   /\ wKill # "true"
   /\ Len(WINDOW_CRON(wCron)) = 5
   /\ ~InWindow(WINDOW_CRON(wCron), wNow))
    => (~wRes.allowed /\ wRes.reason # "none" /\ wPc = "aborted")

(* ----------------------------------------------------------------------- *)
(* guardedFetch under fair scheduling.  Past the horizon of the clock time *)
(* still passes: the origin moves, every stored time is taken back by one  *)
(* tick (a timer that is due stays due) and the bucket is refilled for the *)
(* tick that passed, which a later refill would have added anyway.  The    *)
(* log of started fetches, which no step reads, is not kept past the       *)
(* horizon.                                                                *)
(* ----------------------------------------------------------------------- *)

Max(a, b) == IF a > b THEN a ELSE b

Later ==
  /\ gNow = MaxTime
  /\ \A i \in DOMAIN calls : calls[i].pc \notin {"haveToken", "granted"}
  /\ tokens' = Min(10 * gQps, Refill + gQps)
  /\ lastRefill' = gNow
  /\ calls' = [i \in DOMAIN calls |-> [calls[i] EXCEPT !.wakeAt = Max(@ - 1, 0)]]
  /\ recent' = <<>>
  /\ UNCHANGED <<gNow, running, queue>>
  /\ GuardOthers

GuardLiveNext == GuardNext \/ Later

\* the event loop runs every ready continuation and every due timer, time
\* passes, and a fetch settles: it resolves, rejects, or is aborted after
\* HTTP_TIMEOUT_MS
\* the calls followed to their end
LiveCalls == MaxCalls - 1

GuardFairness ==
  /\ WF_vars(Tick \/ Later)
  /\ \A i \in 1..LiveCalls :
       /\ WF_vars(RateWake(i))
       /\ WF_vars(ConcAcquire(i))
       /\ WF_vars(Attempt(i))
       /\ WF_vars(Retry(i))
       /\ WF_vars(Respond(i) \/ Fail(i))

SpecGuardLive == GuardInitFor(LiveCalls) /\ [][GuardLiveNext]_vars /\ GuardFairness

(* ----------------------------------------------------------------------- *)
(* Properties of guardedFetch under fair scheduling (SpecGuardLive)        *)
(* ----------------------------------------------------------------------- *)

\* C33: every call that was made ends.  It starts at most HTTP_RETRY_MAX + 1
\* fetches; a fetch that resolves ends the call at once with that response;
\* a backoff follows only a rejected fetch that is not the last and leads to
\* the next fetch; the call throws only out of its last fetch, and then the
\* error it throws is that fetch's.
C33_Terminates ==
  /\ \A i \in 1..LiveCalls : (calls[i].pc # "idle") ~> Ended(calls[i])
  /\ [](\A i \in 1..LiveCalls :
          /\ calls[i].attempt <= HTTP_RETRY_MAX
          /\ calls[i].pc = "failed" =>
               (calls[i].attempt = HTTP_RETRY_MAX
                  /\ calls[i].lastError = HTTP_RETRY_MAX + 1)
          /\ calls[i].pc = "returned" => calls[i].lastError = calls[i].attempt)
  /\ [][\A i \in 1..LiveCalls :
          /\ Ended(calls[i]) => calls'[i] = calls[i]
          /\ (calls[i].pc = "fetching" /\ calls'[i].pc # "fetching") =>
               \/ calls'[i].pc = "returned" /\ calls'[i].attempt = calls[i].attempt
               \/ /\ calls'[i].pc = "backoff"
                  /\ calls[i].attempt < HTTP_RETRY_MAX
                  /\ calls'[i].attempt = calls[i].attempt + 1
               \/ calls'[i].pc = "failed" /\ calls[i].attempt = HTTP_RETRY_MAX
          /\ (calls[i].pc = "backoff" /\ calls'[i].pc # "backoff") =>
               calls'[i].pc = "fetching"
          /\ calls'[i].pc = "backoff" => calls[i].pc \in {"fetching", "backoff"}]_vars

\* one call threw after three rejected fetches, the other returned the
\* response of its second fetch
C33_Witness ==
  /\ calls # <<>>
  /\ calls[1].pc = "failed"
  /\ calls[1].attempt = HTTP_RETRY_MAX
  /\ calls[1].lastError = HTTP_RETRY_MAX + 1
  /\ calls[2].pc = "returned"
  /\ calls[2].attempt = 1
  /\ running = 0

====
